---- MODULE Spec2Model ----
(***************************************************************************)
(* Plan validation core of marathon-agent: SystemGraph (engine/graph.py),  *)
(* Builder (engine/builder.py), the four rule evaluators                   *)
(* (engine/evaluators.py), the canonicalizer (core/canonicalize.py) and    *)
(* the DFR generator (engine/dfr.py), driven as cli/validate.py drives     *)
(* them.                                                                   *)
(*                                                                         *)
(* Python values: None and an absent dict key are both NoVal (every read   *)
(* in the code is dict.get, which maps absent to None or to '').  A sha256 *)
(* digest is modelled by the text it digests (collision-free hash).        *)
(***************************************************************************)
EXTENDS Integers, Sequences, FiniteSets, TLC

VARIABLES plan, plan2, run, pc, graph, violations, out1, out2, lastOp, lastError, answer,
          registered, args, result, db, sessions, clock, responses

vars == <<plan, plan2, run, pc, graph, violations, out1, out2, lastOp, lastError, answer,
          registered, args, result, db, sessions, clock, responses>>

(* the evaluators registered and the arguments and the result of a call of
   one function; the database, the requests being served, the time and the
   responses given *)
callVars == <<registered, args, result>>

serviceVars == <<db, sessions, clock, responses>>

NoVal == "None"

(* ------------------------------------------------------------------ *)
(* Bounds of the model                                                 *)
(* ------------------------------------------------------------------ *)
MaxComponents == 2
MaxResources == 2
MaxRelationships == 2
MaxEdges == 3
MaxViolations == 3
MaxItems == 2

(* ------------------------------------------------------------------ *)
(* Python string order on the strings the model uses (str.__lt__)      *)
(* ------------------------------------------------------------------ *)
StrOrd(s) ==
  CASE s = "/u" -> 1
    [] s = "/v" -> 2
    [] s = "API_METHOD_MATCH_001" -> 3
    [] s = "API_SCHEMA_001" -> 4
    [] s = "DB_MIG_001" -> 5
    [] s = "FE_BE_001" -> 6
    [] s = "GET" -> 7
    [] s = "POST" -> 8
    [] s = "c1" -> 9
    [] s = "c2" -> 10
    [] s = "c3" -> 11
    [] s = "calls" -> 12
    [] s = "creates" -> 13
    [] s = "depends_on" -> 14
    [] s = "get" -> 15
    [] s = "r1" -> 16
    [] s = "r2" -> 17
    [] s = "r3" -> 18
    [] s = "zz" -> 19
    [] OTHER -> 0

(* str.upper() on the method strings *)
Upper(s) ==
  CASE s = "get" -> "GET"
    [] s = "post" -> "POST"
    [] OTHER -> s

(* dict.get(key, '') : an absent key reads as the empty string *)
GetOrEmpty(v) == IF v = NoVal THEN "" ELSE v

(* truth value of a str-or-None *)
Truthy(v) == v # NoVal /\ v # ""

(* lexicographic order on equal-length tuples of integers *)
RECURSIVE TupleLess(_, _)
TupleLess(a, b) ==
  IF a = <<>> \/ b = <<>> THEN FALSE
  ELSE IF Head(a) # Head(b) THEN Head(a) < Head(b)
  ELSE TupleLess(Tail(a), Tail(b))

(* sorted(xs, key=...) : a stable sort; keys are tuples of integers *)
RECURSIVE InsertSorted(_, _)
InsertSorted(x, s) ==
  IF s = <<>> THEN <<x>>
  ELSE IF TupleLess(x.key, Head(s).key) THEN <<x>> \o s
  ELSE <<Head(s)>> \o InsertSorted(x, Tail(s))

RECURSIVE SortPairs(_)
SortPairs(s) ==
  IF s = <<>> THEN <<>>
  ELSE InsertSorted(s[Len(s)], SortPairs(SubSeq(s, 1, Len(s) - 1)))

SortedByKey(s, keys) ==
  LET pairs == [i \in 1..Len(s) |-> [key |-> keys[i], val |-> s[i]]]
      sorted == SortPairs(pairs)
  IN [i \in 1..Len(s) |-> sorted[i].val]

(* ------------------------------------------------------------------ *)
(* SystemGraph: a networkx MultiDiGraph plus the _frozen flag.          *)
(* nodes: node records in insertion order, ids unique (a dict);         *)
(* edges: edge records in insertion order (parallel edges allowed).     *)
(* ------------------------------------------------------------------ *)
NoGraph == [nodes |-> <<>>, edges |-> <<>>, frozen |-> FALSE, none |-> TRUE]

NoProps ==
  [comp_type |-> NoVal, method |-> NoVal, path |-> NoVal, schema |-> NoVal,
   request_schema |-> NoVal, response_schema |-> NoVal]

NoMeta == [method |-> NoVal, path |-> NoVal]

NoNode == [id |-> NoVal, type |-> NoVal, name |-> NoVal, properties |-> NoProps]

SystemGraph == [nodes |-> <<>>, edges |-> <<>>, frozen |-> FALSE, none |-> FALSE]

NodeIds(g) == {g.nodes[i].id : i \in 1..Len(g.nodes)}

has_node(g, id) == id \in NodeIds(g)

NodePos(g, id) == CHOOSE i \in 1..Len(g.nodes) : g.nodes[i].id = id

get_node(g, id) == IF has_node(g, id) THEN g.nodes[NodePos(g, id)] ELSE NoNode

(* add_node: RuntimeError when frozen; networkx updates the attributes of
   an id that is already a node and keeps its position *)
add_node(g, id, type, name, properties) ==
  LET n == [id |-> id, type |-> type, name |-> name, properties |-> properties]
  IN IF g.frozen THEN [graph |-> g, error |-> "RuntimeError", missing |-> NoVal]
     ELSE IF has_node(g, id)
       THEN [graph |-> [g EXCEPT !.nodes[NodePos(g, id)] = n], error |-> "", missing |-> NoVal]
       ELSE [graph |-> [g EXCEPT !.nodes = Append(@, n)], error |-> "", missing |-> NoVal]

(* add_edge that ignores an edge to an absent target *)
add_edge_skip_target(g, source, target, type, metadata) ==
  LET e == [source |-> source, target |-> target, type |-> type, metadata |-> metadata]
  IN IF g.frozen THEN [graph |-> g, error |-> "RuntimeError", missing |-> NoVal]
     ELSE IF ~has_node(g, source) THEN [graph |-> g, error |-> "ValueError", missing |-> source]
     ELSE IF ~has_node(g, target) THEN [graph |-> g, error |-> "", missing |-> NoVal]
     ELSE [graph |-> [g EXCEPT !.edges = Append(@, e)], error |-> "", missing |-> NoVal]

(* add_edge without the frozen test *)
add_edge_unguarded(g, source, target, type, metadata) ==
  LET e == [source |-> source, target |-> target, type |-> type, metadata |-> metadata]
  IN IF ~has_node(g, source) THEN [graph |-> g, error |-> "ValueError", missing |-> source]
     ELSE IF ~has_node(g, target) THEN [graph |-> g, error |-> "ValueError", missing |-> target]
     ELSE [graph |-> [g EXCEPT !.edges = Append(@, e)], error |-> "", missing |-> NoVal]

(* add_edge without the test of the target *)
add_edge_no_target_test(g, source, target, type, metadata) ==
  LET e == [source |-> source, target |-> target, type |-> type, metadata |-> metadata]
  IN IF g.frozen THEN [graph |-> g, error |-> "RuntimeError", missing |-> NoVal]
     ELSE IF ~has_node(g, source) THEN [graph |-> g, error |-> "ValueError", missing |-> source]
     ELSE [graph |-> [g EXCEPT !.edges = Append(@, e)], error |-> "", missing |-> NoVal]

(* add_edge: RuntimeError when frozen, ValueError naming the first absent
   endpoint (source is tested first), otherwise appends *)
add_edge(g, source, target, type, metadata) ==
  LET e == [source |-> source, target |-> target, type |-> type, metadata |-> metadata]
  IN IF g.frozen THEN [graph |-> g, error |-> "RuntimeError", missing |-> NoVal]
     ELSE IF ~has_node(g, source) THEN [graph |-> g, error |-> "ValueError", missing |-> source]
     ELSE IF ~has_node(g, target) THEN [graph |-> g, error |-> "ValueError", missing |-> target]
     ELSE [graph |-> [g EXCEPT !.edges = Append(@, e)], error |-> "", missing |-> NoVal]

freeze(g) == [g EXCEPT !.frozen = TRUE]

(* index of the first inserted edge source -> target: the place of target
   in the adjacency dict of source (and of source in the predecessor dict
   of target) *)
FirstEdge(g, source, target) ==
  CHOOSE i \in 1..Len(g.edges) :
    /\ g.edges[i].source = source /\ g.edges[i].target = target
    /\ \A j \in 1..(i - 1) : ~(g.edges[j].source = source /\ g.edges[j].target = target)

AdjKey(g, e) == <<NodePos(g, e.source), FirstEdge(g, e.source, e.target)>>

(* graph.edges : MultiDiGraph.edges(data=True) walks the nodes in insertion
   order, each node's successors in adjacency order, each pair's keys *)
GraphEdges(g) == SortedByKey(g.edges, [i \in 1..Len(g.edges) |-> AdjKey(g, g.edges[i])])

find_nodes_by_type(g, type) == SelectSeq(g.nodes, LAMBDA n : n.type = type)

find_incoming_edges(g, id, edge_type) ==
  LET es == SelectSeq(g.edges, LAMBDA e : e.target = id /\ (edge_type = NoVal \/ e.type = edge_type))
  IN SortedByKey(es, [i \in 1..Len(es) |-> <<FirstEdge(g, es[i].source, es[i].target)>>])

find_outgoing_edges(g, id, edge_type) ==
  LET es == SelectSeq(g.edges, LAMBDA e : e.source = id /\ (edge_type = NoVal \/ e.type = edge_type))
  IN SortedByKey(es, [i \in 1..Len(es) |-> <<FirstEdge(g, es[i].source, es[i].target)>>])

(* ------------------------------------------------------------------ *)
(* Builder                                                              *)
(* ------------------------------------------------------------------ *)
(* a whitelist that lets 'worker' through *)
ALLOWED_WITH_WORKER == {"frontend", "backend", "database", "worker"}

ALLOWED_COMPONENT_TYPES == {"frontend", "backend", "database"}
ALLOWED_RESOURCE_TYPES == {"api_endpoint", "database_table", "migration"}
ALLOWED_EDGE_TYPES == {"calls", "creates", "reads", "updates", "deletes", "depends_on"}

(* a BuildError: the rule code and what the message names *)
BuildError(code, detail) == [code |-> code, detail |-> detail, graph |-> NoGraph]

Built(g) == [code |-> "", detail |-> <<>>, graph |-> g]

(* 'api' -> 'api_endpoint', 'table' -> 'database_table' *)
NormalizeResType(t) ==
  IF t = "api" THEN "api_endpoint"
  ELSE IF t = "table" THEN "database_table"
  ELSE t

ComponentProps(comp) ==
  [NoProps EXCEPT !.comp_type = comp.type, !.path = comp.path]

ResourceProps(res) ==
  [comp_type |-> NoVal, method |-> res.properties.method,
   path |-> res.properties.path, schema |-> res.properties.schema,
   request_schema |-> res.properties.request_schema,
   response_schema |-> res.properties.response_schema]

(* the inner loop of step 1: the resources of one component, from the k-th *)
RECURSIVE AddResources(_, _, _)
AddResources(g, comp, k) ==
  IF k > Len(comp.resources) THEN Built(g)
  ELSE LET res == comp.resources[k]
           res_type == NormalizeResType(res.type)
       IN IF res_type \notin ALLOWED_RESOURCE_TYPES
            THEN BuildError("UNKNOWN_RESOURCE_TYPE", <<res.type>>)
            ELSE LET g1 == add_node(g, res.id, res_type, res.name, ResourceProps(res)).graph
                     g2 == add_edge(g1, comp.id, res.id, "contains", NoMeta).graph
                 IN AddResources(g2, comp, k + 1)

(* step 1: components and their resources, from the i-th component *)
RECURSIVE AddComponents(_, _, _)
AddComponents(g, components, i) ==
  IF i > Len(components) THEN Built(g)
  ELSE LET comp == components[i]
       IN IF comp.type \notin ALLOWED_COMPONENT_TYPES
            THEN BuildError("UNKNOWN_COMPONENT_TYPE", <<comp.type>>)
            ELSE LET g1 == add_node(g, comp.id, "component", comp.name, ComponentProps(comp)).graph
                     r == AddResources(g1, comp, 1)
                 IN IF r.code # "" THEN r ELSE AddComponents(r.graph, components, i + 1)

(* step 2: relationships, from the i-th; a ValueError of add_edge becomes
   the DEPENDENCY_EXISTS failure, whose message carries the ValueError's *)
RECURSIVE AddRelationships(_, _, _)
AddRelationships(g, relationships, i) ==
  IF i > Len(relationships) THEN Built(g)
  ELSE LET rel == relationships[i]
       IN IF rel.type \notin ALLOWED_EDGE_TYPES
            THEN BuildError("UNKNOWN_RELATIONSHIP_TYPE", <<rel.type>>)
            ELSE LET a == add_edge(g, rel.source, rel.target, rel.type, rel.metadata)
                 IN IF a.error = "ValueError"
                      THEN BuildError("DEPENDENCY_EXISTS", <<a.missing>>)
                      ELSE AddRelationships(a.graph, relationships, i + 1)

(* the key without .upper() *)
RouteKeyCaseSensitive(node) == <<GetOrEmpty(node.properties.method), GetOrEmpty(node.properties.path)>>

(* the routes dict key of an api node; registered only if both are truthy *)
RouteKey(node) == <<Upper(GetOrEmpty(node.properties.method)), GetOrEmpty(node.properties.path)>>

HasRoute(node) == RouteKey(node)[1] # "" /\ RouteKey(node)[2] # ""

(* UNIQUE_ENDPOINT: api_nodes from the i-th, routes = the nodes registered *)
RECURSIVE UniqueEndpoint(_, _, _)
UniqueEndpoint(api_nodes, i, routes) ==
  IF i > Len(api_nodes) THEN <<>>
  ELSE LET node == api_nodes[i]
       IN IF ~HasRoute(node) THEN UniqueEndpoint(api_nodes, i + 1, routes)
          ELSE IF \E j \in 1..Len(routes) : RouteKey(routes[j]) = RouteKey(node)
            THEN LET j == CHOOSE j \in 1..Len(routes) : RouteKey(routes[j]) = RouteKey(node)
                 IN <<routes[j].id, node.id>>
            ELSE UniqueEndpoint(api_nodes, i + 1, Append(routes, node))

(* the match on the path alone *)
CallMatches_path_only(child, call_path, call_method) ==
  /\ child.type = "api_endpoint"
  /\ child.properties.path = call_path

(* does the child match the call: its path, and its method when the call
   gives one *)
CallMatches(child, call_path, call_method) ==
  /\ child.type = "api_endpoint"
  /\ child.properties.path = call_path
  /\ (Truthy(call_method) =>
        Upper(GetOrEmpty(child.properties.method)) = Upper(call_method))

(* the list `found` of one 'calls' edge with a path to a component *)
FoundCandidates(g, edge) ==
  LET children_edges == find_outgoing_edges(g, edge.target, "contains")
      children == [k \in 1..Len(children_edges) |-> get_node(g, children_edges[k].target)]
  IN SelectSeq(children, LAMBDA child : CallMatches(child, edge.metadata.path, edge.metadata.method))

NeedsResolution(g, edge) ==
  /\ edge.type = "calls"
  /\ Truthy(edge.metadata.path)
  /\ get_node(g, edge.target).type = "component"

(* the resolution check with `len(found) != 1`: a call that matches no
   child is rejected as well, naming the target *)
RECURSIVE AmbiguousRoute_exactly_one(_, _, _)
AmbiguousRoute_exactly_one(g, edges, i) ==
  IF i > Len(edges) THEN <<>>
  ELSE IF NeedsResolution(g, edges[i]) /\ Len(FoundCandidates(g, edges[i])) # 1
    THEN LET found == FoundCandidates(g, edges[i])
         IN <<edges[i].target>> \o [k \in 1..Len(found) |-> found[k].id]
    ELSE AmbiguousRoute_exactly_one(g, edges, i + 1)

(* NO_AMBIGUOUS_ROUTE: the edges from the i-th *)
RECURSIVE AmbiguousRoute(_, _, _)
AmbiguousRoute(g, edges, i) ==
  IF i > Len(edges) THEN <<>>
  ELSE IF NeedsResolution(g, edges[i]) /\ Len(FoundCandidates(g, edges[i])) > 1
    THEN LET found == FoundCandidates(g, edges[i])
         IN [k \in 1..Len(found) |-> found[k].id]
    ELSE AmbiguousRoute(g, edges, i + 1)

(* the two checks in the other order *)
reject_ambiguity_routes_first(g) ==
  LET a == AmbiguousRoute(g, GraphEdges(g), 1)
  IN IF a # <<>> THEN BuildError("NO_AMBIGUOUS_ROUTE", a)
     ELSE LET u == UniqueEndpoint(find_nodes_by_type(g, "api_endpoint"), 1, <<>>)
          IN IF u # <<>> THEN BuildError("UNIQUE_ENDPOINT", u) ELSE Built(g)

reject_ambiguity(g) ==
  LET u == UniqueEndpoint(find_nodes_by_type(g, "api_endpoint"), 1, <<>>)
  IN IF u # <<>> THEN BuildError("UNIQUE_ENDPOINT", u)
     ELSE LET a == AmbiguousRoute(g, GraphEdges(g), 1)
          IN IF a # <<>> THEN BuildError("NO_AMBIGUOUS_ROUTE", a) ELSE Built(g)

(* build without step 4 *)
build_unfrozen(p) ==
  LET a == AddComponents(SystemGraph, p.components, 1)
  IN IF a.code # "" THEN a
     ELSE LET b == AddRelationships(a.graph, p.relationships, 1)
          IN IF b.code # "" THEN b
             ELSE LET c == reject_ambiguity(b.graph)
                  IN IF c.code # "" THEN c ELSE Built(b.graph)

(* Builder.build: the graph, frozen, or the BuildError raised *)
build(p) ==
  LET a == AddComponents(SystemGraph, p.components, 1)
  IN IF a.code # "" THEN a
     ELSE LET b == AddRelationships(a.graph, p.relationships, 1)
          IN IF b.code # "" THEN b
             ELSE LET c == reject_ambiguity(b.graph)
                  IN IF c.code # "" THEN c ELSE Built(freeze(b.graph))

(* ------------------------------------------------------------------ *)
(* Canonicalizer and violations                                         *)
(* ------------------------------------------------------------------ *)
NoData == [target |-> NoVal, path |-> NoVal, table_name |-> NoVal,
           call_method |-> NoVal, target_method |-> NoVal]

(* canonicalize_json of the payload {rule_id, offending_node, **dedup_data}:
   the values in the order of the sorted keys *)
canonical_payload(rule_id, offending_node, dedup_data) ==
  <<dedup_data.call_method, offending_node, dedup_data.path, rule_id,
    dedup_data.table_name, dedup_data.target, dedup_data.target_method>>

(* the message carries the digest's prefix, the metadata the digest *)
generate_violation(rule_id, message, offending_node, dedup_data) ==
  LET v_id == canonical_payload(rule_id, offending_node, dedup_data)
  IN [rule_id |-> rule_id,
      message |-> [text |-> message, id |-> v_id],
      offending_node |-> offending_node,
      metadata |-> [violation_hash |-> v_id, data |-> dedup_data]]

RECURSIVE Flatten(_)
Flatten(ss) == IF ss = <<>> THEN <<>> ELSE Head(ss) \o Flatten(Tail(ss))

(* the first api_endpoint 'contains' child of the component whose path is
   the call's path (for ... break), or the component itself *)
ResolveByPath(g, target_node, call_path) ==
  LET children_edges == find_outgoing_edges(g, target_node.id, "contains")
      hit(k) == LET child == get_node(g, children_edges[k].target)
                IN child.type = "api_endpoint" /\ child.properties.path = call_path
  IN IF \E k \in 1..Len(children_edges) : hit(k)
       THEN LET k == CHOOSE k \in 1..Len(children_edges) :
                       hit(k) /\ \A j \in 1..(k - 1) : ~hit(j)
            IN get_node(g, children_edges[k].target)
       ELSE target_node

FeBeResolved(g, edge) ==
  LET target_node == get_node(g, edge.target)
  IN IF target_node.type = "component"
       THEN ResolveByPath(g, target_node, edge.metadata.path)
       ELSE target_node

(* is_backend_target that accepts any parent *)
IsBackendTarget_any_parent(g, resolved_node) ==
  find_incoming_edges(g, resolved_node.id, "contains") # <<>>

IsBackendTarget(g, resolved_node) ==
  LET parents == find_incoming_edges(g, resolved_node.id, "contains")
  IN /\ parents # <<>>
     /\ LET parent == get_node(g, parents[1].source)
        IN parent.type = "component" /\ parent.properties.comp_type = "backend"

FeBeEdge(g, edge) ==
  LET source_node == get_node(g, edge.source)
      is_frontend == source_node.type = "component"
                     /\ source_node.properties.comp_type = "frontend"
  IN IF edge.type = "calls" /\ is_frontend /\ Truthy(edge.metadata.path)
          /\ ~IsBackendTarget(g, FeBeResolved(g, edge))
       THEN <<generate_violation("FE_BE_001", <<edge.metadata.path>>, edge.source,
                [NoData EXCEPT !.target = FeBeResolved(g, edge).id,
                               !.path = edge.metadata.path])>>
       ELSE <<>>

FeBeMatchEvaluator(g) ==
  LET edges == GraphEdges(g)
  IN Flatten([k \in 1..Len(edges) |-> FeBeEdge(g, edges[k])])

(* the check that looks for the key 'schema' only *)
ApiSchemaNode_schema_only(node) ==
  IF node.properties.schema = NoVal
    THEN <<generate_violation("API_SCHEMA_001",
             <<node.name, IF node.properties.path = NoVal THEN "unknown" ELSE node.properties.path>>,
             node.id, [NoData EXCEPT !.path = node.properties.path])>>
    ELSE <<>>

(* has_schema: one of the three keys is in props *)
ApiSchemaNode(node) ==
  IF /\ node.properties.schema = NoVal
     /\ node.properties.request_schema = NoVal
     /\ node.properties.response_schema = NoVal
    THEN <<generate_violation("API_SCHEMA_001",
             <<node.name, IF node.properties.path = NoVal THEN "unknown" ELSE node.properties.path>>,
             node.id, [NoData EXCEPT !.path = node.properties.path])>>
    ELSE <<>>

ApiSchemaEvaluator(g) ==
  LET api_nodes == find_nodes_by_type(g, "api_endpoint")
  IN Flatten([k \in 1..Len(api_nodes) |-> ApiSchemaNode(api_nodes[k])])

(* the check without the test of the source's kind *)
DbMigTable_any_source(g, table) ==
  IF find_incoming_edges(g, table.id, "creates") = <<>>
    THEN <<generate_violation("DB_MIG_001", <<table.name>>, table.id,
             [NoData EXCEPT !.table_name = table.name])>>
    ELSE <<>>

DbMigTable(g, table) ==
  LET incoming == find_incoming_edges(g, table.id, "creates")
      has_migration == \E k \in 1..Len(incoming) : get_node(g, incoming[k].source).type = "migration"
  IN IF ~has_migration
       THEN <<generate_violation("DB_MIG_001", <<table.name>>, table.id,
                [NoData EXCEPT !.table_name = table.name])>>
       ELSE <<>>

DbMigEvaluator(g) ==
  LET tables == find_nodes_by_type(g, "database_table")
  IN Flatten([k \in 1..Len(tables) |-> DbMigTable(g, tables[k])])

(* the node whose method the call's method is compared with; the path
   comparison is == on dict.get results, so None matches None *)
MethodResolved(g, edge) ==
  LET target_node == get_node(g, edge.target)
  IN IF target_node.type = "component"
       THEN ResolveByPath(g, target_node, edge.metadata.path)
       ELSE target_node

ApiMethodEdge(g, edge) ==
  LET call_method == edge.metadata.method
      target_node == MethodResolved(g, edge)
      target_method == target_node.properties.method
  IN IF edge.type = "calls" /\ Truthy(call_method)
          /\ target_node.type = "api_endpoint"
          /\ Truthy(target_method) /\ Upper(target_method) # Upper(call_method)
       THEN <<generate_violation("API_METHOD_MATCH_001", <<call_method, target_method>>,
                edge.source,
                [NoData EXCEPT !.call_method = call_method,
                               !.target_method = target_method,
                               !.path = edge.metadata.path])>>
       ELSE <<>>

ApiMethodMatchEvaluator(g) ==
  LET edges == GraphEdges(g)
  IN Flatten([k \in 1..Len(edges) |-> ApiMethodEdge(g, edges[k])])

ACTIVE_EVALUATORS == <<"FE_BE_001", "API_SCHEMA_001", "DB_MIG_001", "API_METHOD_MATCH_001">>

evaluate(rule_id, g) ==
  CASE rule_id = "FE_BE_001" -> FeBeMatchEvaluator(g)
    [] rule_id = "API_SCHEMA_001" -> ApiSchemaEvaluator(g)
    [] rule_id = "DB_MIG_001" -> DbMigEvaluator(g)
    [] rule_id = "API_METHOD_MATCH_001" -> ApiMethodMatchEvaluator(g)

(* for evaluator in ACTIVE_EVALUATORS: violations.extend(evaluator.evaluate(graph)) *)
RunEvaluators(g, initial) ==
  initial \o Flatten([k \in 1..Len(ACTIVE_EVALUATORS) |-> evaluate(ACTIVE_EVALUATORS[k], g)])

(* the loop over the list of evaluators in the order the list has *)
RunEvaluatorsIn(order, g, initial) ==
  initial \o Flatten([k \in 1..Len(order) |-> evaluate(order[k], g)])

(* ------------------------------------------------------------------ *)
(* sort_lists_in_plan, canonicalize_json, generate_dfr                   *)
(* ------------------------------------------------------------------ *)
(* key of a list element that has an 'id': the id *)
IdKey(x) == <<StrOrd(x.id)>>

(* str() of a metadata dict with sorted keys: "{'method': .., 'path': ..}"
   < "{'method': ..}" (',' < '}'), "{'method'.." < "{'path'.." < "{}" *)
MetaStrKey(md) ==
  IF md.method # NoVal
    THEN <<0, StrOrd(md.method), IF md.path # NoVal THEN 0 ELSE 1, StrOrd(md.path)>>
    ELSE IF md.path # NoVal THEN <<1, 0, 0, StrOrd(md.path)>>
    ELSE <<2, 0, 0, 0>>

(* key of a relationship, which has no 'id': str(x), the dict's keys being
   sorted already: metadata, source, target, type *)
RelStrKey(rel) ==
  MetaStrKey(rel.metadata) \o <<StrOrd(rel.source), StrOrd(rel.target), StrOrd(rel.type)>>

IdKeys(xs) == [i \in 1..Len(xs) |-> IdKey(xs[i])]

RelStrKeys(xs) == [i \in 1..Len(xs) |-> RelStrKey(xs[i])]

SortList(xs, keys) == SortedByKey(xs, keys)

(* sorts the top-level lists only *)
sort_lists_shallow(p) ==
  [components |-> SortList(p.components, IdKeys(p.components)),
   relationships |-> SortList(p.relationships, RelStrKeys(p.relationships))]

sort_lists_in_plan(p) ==
  LET comps == [i \in 1..Len(p.components) |->
                  [p.components[i] EXCEPT !.resources = SortList(@, IdKeys(@))]]
  IN [components |-> SortList(comps, IdKeys(comps)),
      relationships |-> SortList(p.relationships, RelStrKeys(p.relationships))]

(* json.dumps(sort_lists_in_plan(data), sort_keys=True): the text is
   one-to-one with the sorted structure *)
canonicalize_json(data) == sort_lists_in_plan(data)

(* the key without the rule id *)
ViolationKey_node_only(v) == <<StrOrd(v.offending_node)>>

ViolationKey(v) == <<StrOrd(v.rule_id), StrOrd(v.offending_node)>>

(* the sort with the rule id as its only key *)
SortViolations_by_rule(vs) == SortedByKey(vs, [i \in 1..Len(vs) |-> <<StrOrd(vs[i].rule_id)>>])

(* violations.sort(key=...) : in place, stable *)
SortViolations(vs) == SortedByKey(vs, [i \in 1..Len(vs) |-> ViolationKey(vs[i])])

generate_dfr(p, vs) ==
  LET plan_hash == canonicalize_json(sort_lists_in_plan(p))
      formatted_violations == SortViolations(vs)
  IN [plan_hash |-> plan_hash,
      passed |-> Len(formatted_violations) = 0,
      violations |-> formatted_violations]

(* ------------------------------------------------------------------ *)
(* canonicalize.py on any JSON-like value. A value is a record with its  *)
(* kind; a str is the sequence of its character codes; a dict is a       *)
(* function on its keys, which has no key order of its own.              *)
(* ------------------------------------------------------------------ *)
JNull == [kind |-> "null"]

JInt(n) == [kind |-> "int", n |-> n]

JStr(chars) == [kind |-> "str", chars |-> chars]

JList(items) == [kind |-> "list", items |-> items]

JDict(fields) == [kind |-> "dict", fields |-> fields]

(* the keys the model's dicts use, in sorted order, and their characters *)
KeyOrder == <<"call_method", "id", "offending_node", "path", "rule_id", "v", "xs">>

KeyCodes(k) ==
  CASE k = "call_method" -> <<99, 97, 108, 108, 95, 109, 101, 116, 104, 111, 100>>
    [] k = "id" -> <<105, 100>>
    [] k = "offending_node" -> <<111, 102, 102, 101, 110, 100, 105, 110, 103, 95, 110, 111, 100, 101>>
    [] k = "path" -> <<112, 97, 116, 104>>
    [] k = "rule_id" -> <<114, 117, 108, 101, 95, 105, 100>>
    [] k = "v" -> <<118>>
    [] k = "xs" -> <<120, 115>>

(* sorted(plan.items()): the keys of a dict in sorted order *)
SortedKeys(fields) == SelectSeq(KeyOrder, LAMBDA k : k \in DOMAIN fields)

RECURSIVE Join(_, _)
Join(parts, sep) ==
  IF parts = <<>> THEN <<>>
  ELSE IF Len(parts) = 1 THEN parts[1]
  ELSE parts[1] \o sep \o Join(Tail(parts), sep)

(* repr(x): 1, 'a', None, [1, 2], {'id': 'a', 'v': 1} *)
RECURSIVE Repr(_)
Repr(x) ==
  CASE x.kind = "null" -> <<78, 111, 110, 101>>
    [] x.kind = "int" -> <<48 + x.n>>
    [] x.kind = "str" -> <<39>> \o x.chars \o <<39>>
    [] x.kind = "list" ->
         <<91>> \o Join([i \in 1..Len(x.items) |-> Repr(x.items[i])], <<44, 32>>) \o <<93>>
    [] x.kind = "dict" ->
         LET ks == SortedKeys(x.fields)
         IN <<123>> \o Join([i \in 1..Len(ks) |->
                               <<39>> \o KeyCodes(ks[i]) \o <<39, 58, 32>> \o Repr(x.fields[ks[i]])],
                            <<44, 32>>) \o <<125>>

(* str(x): a str is itself, anything else its repr *)
Str(x) == IF x.kind = "str" THEN x.chars ELSE Repr(x)

(* json.dumps(x, sort_keys=True, separators=(',', ':')) *)
RECURSIVE Dumps(_)
Dumps(x) ==
  CASE x.kind = "null" -> <<110, 117, 108, 108>>
    [] x.kind = "int" -> <<48 + x.n>>
    [] x.kind = "str" -> <<34>> \o x.chars \o <<34>>
    [] x.kind = "list" ->
         <<91>> \o Join([i \in 1..Len(x.items) |-> Dumps(x.items[i])], <<44>>) \o <<93>>
    [] x.kind = "dict" ->
         LET ks == SortedKeys(x.fields)
         IN <<123>> \o Join([i \in 1..Len(ks) |->
                               <<34>> \o KeyCodes(ks[i]) \o <<34, 58>> \o Dumps(x.fields[ks[i]])],
                            <<44>>) \o <<125>>

(* the longest key text the model compares; shorter ones are filled with 0,
   which is below every character *)
KeyWidth == 48

Padded(chars) == chars \o [i \in 1..(KeyWidth - Len(chars)) |-> 0]

(* lambda x: x.get('id') if isinstance(x, dict) and 'id' in x else str(x) *)
IdOrStr(x) ==
  IF x.kind = "dict" /\ "id" \in DOMAIN x.fields THEN x.fields["id"] ELSE JStr(Str(x))

(* the first sorted() raises TypeError when it compares two keys that are
   not both str or both int; with fewer than two elements it compares
   nothing *)
Comparable(keys) ==
  \/ Len(keys) < 2
  \/ \A i \in 1..Len(keys) : keys[i].kind = "str"
  \/ \A i \in 1..Len(keys) : keys[i].kind = "int"

(* a key that is never compared (a list of one element) may be anything *)
KeyTuple(key) ==
  CASE key.kind = "int" -> <<key.n>>
    [] key.kind = "str" -> Padded(key.chars)
    [] OTHER -> <<0>>

(* try: sorted(.., key=id or str) except: sorted(.., key=str) *)
SortItems(items) ==
  LET keys == [i \in 1..Len(items) |-> IdOrStr(items[i])]
  IN IF Comparable(keys)
       THEN SortedByKey(items, [i \in 1..Len(items) |-> KeyTuple(keys[i])])
       ELSE SortedByKey(items, [i \in 1..Len(items) |-> Padded(Str(items[i]))])

RECURSIVE sort_lists(_)
sort_lists(x) ==
  CASE x.kind = "dict" -> JDict([k \in DOMAIN x.fields |-> sort_lists(x.fields[k])])
    [] x.kind = "list" -> JList(SortItems([i \in 1..Len(x.items) |-> sort_lists(x.items[i])]))
    [] OTHER -> x

canonicalize(data) == Dumps(sort_lists(data))

(* generate_violation on any dedup_data, a dict given as a function on its
   keys: payload = {"rule_id": .., "offending_node": .., **dedup_data}, in
   which a key of dedup_data replaces the one before it *)
violation_payload(rule_id, offending_node, dedup_data) ==
  JDict([k \in {"rule_id", "offending_node"} \cup DOMAIN dedup_data |->
           IF k \in DOMAIN dedup_data THEN dedup_data[k]
           ELSE IF k = "rule_id" THEN rule_id ELSE offending_node])

(* v_id: sha256 of the canonical text, one-to-one with that text *)
violation_hash(rule_id, offending_node, dedup_data) ==
  canonicalize(violation_payload(rule_id, offending_node, dedup_data))

generate_violation_of(call) ==
  LET v_id == violation_hash(call.rule_id, call.offending_node, call.dedup_data)
  IN [rule_id |-> call.rule_id,
      message |-> [text |-> call.message, id |-> v_id],
      offending_node |-> call.offending_node,
      metadata |-> [violation_hash |-> v_id, data |-> call.dedup_data]]

(* ------------------------------------------------------------------ *)
(* The plans validated: PlanSchema values (db/schemas.py)                *)
(* ------------------------------------------------------------------ *)
Component(id, type, resources) ==
  [id |-> id, name |-> id, type |-> type, path |-> "/", resources |-> resources]

Resource(id, type, method, path, schema) ==
  [id |-> id, type |-> type, name |-> id,
   properties |-> [method |-> method, path |-> path, schema |-> schema,
                   request_schema |-> NoVal, response_schema |-> NoVal]]

Relationship(source, target, type, method, path) ==
  [source |-> source, target |-> target, type |-> type,
   metadata |-> [method |-> method, path |-> path]]

PlanSchema(components, relationships) ==
  [components |-> components, relationships |-> relationships]

SeqsUpTo(S, n) == UNION {[1..k -> S] : k \in 0..n}

CompIds == <<"c1", "c2", "c3">>
ResIds == <<"r1", "r2", "r3">>

(* Component.type is Literal['frontend','backend','database','worker','cli'] *)
ComponentTypes == {"frontend", "backend", "database", "worker", "cli"}

(* Resource.type is a free str *)
RawResourceTypes == {"api", "api_endpoint", "table", "database_table", "migration", "topic"}

Methods == {NoVal, "GET", "get", "POST"}

(* one relationship whose target is declared nowhere *)
Dangling == Relationship("c1", "zz", "depends_on", NoVal, NoVal)

(* plans that vary the component kinds: up to MaxComponents components
   c1, c2, .. without resources *)
KindPlans ==
  {PlanSchema([i \in 1..Len(ts) |-> Component(CompIds[i], ts[i], <<>>)], rels) :
     ts \in SeqsUpTo(ComponentTypes, MaxComponents), rels \in {<<>>, <<Dangling>>}}

(* plans that vary the resource kinds: one component with up to
   MaxResources resources r1, r2, .. *)
ResourceKindPlans ==
  {PlanSchema(<<Component("c1", t, [k \in 1..Len(rs) |-> Resource(ResIds[k], rs[k], NoVal, NoVal, NoVal)])>>, rels) :
     t \in {"backend", "worker"}, rs \in SeqsUpTo(RawResourceTypes, MaxResources),
     rels \in {<<>>, <<Dangling>>}}

(* plans that vary the relationships: a database with a table and its
   migration, a second component, and up to MaxRelationships relationships
   among declared ids and one undeclared id *)
RefIds == {"c1", "r1", "r2", "zz"}

RefRelationships ==
  {Relationship(s, t, ty, NoVal, NoVal) :
     s \in RefIds, t \in RefIds \ {"r2"}, ty \in {"creates"}}
  \cup {Relationship("c2", "c1", "depends_on", NoVal, NoVal),
        Relationship("c1", "c2", "depends_on", NoVal, NoVal)}

ReferencePlans ==
  {PlanSchema(<<Component("c1", "database",
                  <<Resource("r1", "table", NoVal, NoVal, NoVal),
                    Resource("r2", "migration", NoVal, NoVal, NoVal)>>),
                Component("c2", t, <<>>)>>, rels) :
     t \in {"backend", "cli"}, rels \in SeqsUpTo(RefRelationships, MaxRelationships)}

(* plans that vary the routes: a frontend c1 and a component c2 with up to
   MaxResources endpoints r1, r2, .. (declared 'api' and 'api_endpoint' in
   turn), and at most one call from c1 *)
EndpointDecls == Methods \X {NoVal, "/u"}

EndpointType(k) == IF k % 2 = 1 THEN "api" ELSE "api_endpoint"

Calls ==
  {Relationship("c1", t, "calls", m, p) :
     t \in {"c2", "r1"}, m \in {NoVal, "GET", "POST"}, p \in {NoVal, "/u", "/v"}}

RoutePlans ==
  {PlanSchema(<<Component("c1", "frontend", <<>>),
                Component("c2", t,
                  [k \in 1..Len(es) |->
                     Resource(ResIds[k], EndpointType(k), es[k][1], es[k][2], "schema")])>>,
              rels) :
     t \in {"backend", "database"}, es \in SeqsUpTo(EndpointDecls, MaxResources),
     rels \in SeqsUpTo(Calls, 1)}

(* plans in which ids repeat: two backends, the second named c1 or c2,
   each with up to MaxResources resources named r1 or r2 (in the second
   component r1 is a table, and a resource may take the id c1 of the first
   component), and a call *)
RepeatedEndpoint(id) ==
  Resource(id, "api", IF id = "r1" THEN "GET" ELSE "POST", "/u", NoVal)

RepeatedResource(id) ==
  IF id = "r1" THEN Resource(id, "table", NoVal, NoVal, NoVal) ELSE RepeatedEndpoint(id)

RepeatPlans ==
  {PlanSchema(<<Component("c1", "backend", [k \in 1..Len(a) |-> RepeatedEndpoint(a[k])]),
                Component(c, "backend", [k \in 1..Len(b) |-> RepeatedResource(b[k])])>>,
              rels) :
     c \in {"c1", "c2"},
     a \in SeqsUpTo({"r1", "r2"}, MaxResources),
     b \in SeqsUpTo({"r1", "r2", "c1"}, MaxResources),
     rels \in {<<>>, <<Relationship("c1", "c1", "calls", "GET", "/u")>>}}

(* plans in which two components declare a resource of the same id r2, and
   at most one call with the path of r2 *)
SharedCalls ==
  {Relationship(s, t, "calls", m, "/u") : s \in {"c1", "c2"}, t \in {"c1", "c2"}, m \in {NoVal, "POST"}}

SharedPlans ==
  {PlanSchema(<<Component("c1", ta, <<RepeatedEndpoint("r2")>>),
                Component("c2", tb, <<RepeatedEndpoint("r2")>>)>>, rels) :
     ta \in {"frontend", "backend", "database"}, tb \in {"frontend", "backend", "database"},
     rels \in SeqsUpTo(SharedCalls, 1)}

(* plans that vary the schema keys of the endpoints: one backend with up to
   MaxResources endpoints, each with any of the three keys *)
SchemaKeys == {"schema", "request_schema", "response_schema"}

SchemaEndpoint(id, keys) ==
  [id |-> id, type |-> "api", name |-> id,
   properties |-> [method |-> NoVal,
                   path |-> IF id = "r1" THEN "/u" ELSE NoVal,
                   schema |-> IF "schema" \in keys THEN "schema" ELSE NoVal,
                   request_schema |-> IF "request_schema" \in keys THEN "schema" ELSE NoVal,
                   response_schema |-> IF "response_schema" \in keys THEN "schema" ELSE NoVal]]

SchemaPlans ==
  {PlanSchema(<<Component("c1", "backend",
                  [k \in 1..Len(ks) |-> SchemaEndpoint(ResIds[k], ks[k])])>>, <<>>) :
     ks \in SeqsUpTo(SUBSET SchemaKeys, MaxResources)}

(* plans with several defects at once: a first component of a kind that
   may be unknown, a backend whose two endpoints may be of an unknown kind
   and may declare one route, a call that both endpoints match, and a
   relationship to an undeclared id *)
DefectPlans ==
  {PlanSchema(<<Component("c1", t, <<>>),
                Component("c2", "backend",
                  <<Resource("r1", k, "GET", "/u", "schema"),
                    Resource("r2", "api", m, "/u", "schema")>>)>>, rels) :
     t \in {"frontend", "cli"}, k \in {"api", "topic"}, m \in {"get", "POST"},
     rels \in SeqsUpTo({Relationship("c1", "c2", "calls", NoVal, "/u"), Dangling}, MaxRelationships)}

Plans ==
  KindPlans \cup ResourceKindPlans \cup ReferencePlans \cup RoutePlans \cup RepeatPlans
    \cup SharedPlans \cup SchemaPlans \cup DefectPlans

(* ------------------------------------------------------------------ *)
(* cli/validate.py main(), run twice: on plan, then on plan2, a          *)
(* redeclaration of plan in another order                                *)
(* ------------------------------------------------------------------ *)
NoDfr == [plan_hash |-> PlanSchema(<<>>, <<>>), passed |-> FALSE, violations |-> <<>>]

NoOut == [kind |-> "none", code |-> "", detail |-> <<>>, dfr |-> NoDfr]

ErrorOut(b) == [kind |-> "error", code |-> b.code, detail |-> b.detail, dfr |-> NoDfr]

DfrOut(d) == [kind |-> "dfr", code |-> "", detail |-> <<>>, dfr |-> d]

CurPlan == IF run = 1 THEN plan ELSE plan2

(* no function is being called, with the evaluators as registered *)
NoCall ==
  /\ registered = ACTIVE_EVALUATORS
  /\ args = <<>>
  /\ result = <<>>

(* no service is running *)
NoService ==
  /\ db = <<>>
  /\ sessions = <<>>
  /\ clock = 0
  /\ responses = <<>>

(* the list of the previous run, kept *)
LeftoverViolations == violations

(* violations = [] *)
InitialViolations == <<>>

Init ==
  /\ plan \in Plans
  /\ plan2 = plan
  /\ run = 1
  /\ pc = "start"
  /\ graph = NoGraph
  /\ violations = <<>>
  /\ out1 = NoOut
  /\ out2 = NoOut
  /\ lastOp = ""
  /\ lastError = ""
  /\ answer = <<>>
  /\ NoCall /\ NoService

SetOut(o) ==
  IF run = 1 THEN out1' = o /\ UNCHANGED out2 ELSE out2' = o /\ UNCHANGED out1

(* graph = builder.build(plan); a BuildError ends the run *)
Build ==
  /\ pc = "start"
  /\ LET b == build(CurPlan)
     IN IF b.code = ""
          THEN /\ graph' = b.graph
               /\ pc' = "built"
               /\ UNCHANGED <<out1, out2>>
          ELSE /\ graph' = NoGraph
               /\ pc' = "done"
               /\ SetOut(ErrorOut(b))
  /\ UNCHANGED <<plan, plan2, run, violations, lastOp, lastError, answer>>
  /\ UNCHANGED <<callVars, serviceVars>>

(* the loop over ACTIVE_EVALUATORS *)
Evaluate ==
  /\ pc = "built"
  /\ violations' = RunEvaluators(graph, InitialViolations)
  /\ pc' = "evaluated"
  /\ UNCHANGED <<plan, plan2, run, graph, out1, out2, lastOp, lastError, answer>>
  /\ UNCHANGED <<callVars, serviceVars>>

(* dfr = generate_dfr(plan, violations), which sorts the list in place *)
GenerateDfr ==
  /\ pc = "evaluated"
  /\ SetOut(DfrOut(generate_dfr(CurPlan, violations)))
  /\ violations' = SortViolations(violations)
  /\ pc' = "done"
  /\ UNCHANGED <<plan, plan2, run, graph, lastOp, lastError, answer>>
  /\ UNCHANGED <<callVars, serviceVars>>

(* the second invocation; of the pipeline's variables nothing is reset but
   what the code resets *)
NextRun ==
  /\ pc = "done"
  /\ run = 1
  /\ run' = 2
  /\ pc' = "start"
  /\ lastOp' = ""
  /\ lastError' = ""
  /\ UNCHANGED <<plan, plan2, graph, violations, out1, out2, answer>>
  /\ UNCHANGED <<callVars, serviceVars>>

Swap(s, i) == [s EXCEPT ![i] = s[i + 1], ![i + 1] = s[i]]

(* the second plan declares two neighbouring components the other way round *)
SwapComponents ==
  /\ run = 2 /\ pc = "start"
  /\ \E i \in 1..(Len(plan2.components) - 1) :
       plan2' = [plan2 EXCEPT !.components = Swap(@, i)]
  /\ UNCHANGED <<plan, run, pc, graph, violations, out1, out2, lastOp, lastError, answer>>
  /\ UNCHANGED <<callVars, serviceVars>>

SwapResources ==
  /\ run = 2 /\ pc = "start"
  /\ \E c \in 1..Len(plan2.components) :
       \E k \in 1..(Len(plan2.components[c].resources) - 1) :
         plan2' = [plan2 EXCEPT !.components[c].resources = Swap(@, k)]
  /\ UNCHANGED <<plan, run, pc, graph, violations, out1, out2, lastOp, lastError, answer>>
  /\ UNCHANGED <<callVars, serviceVars>>

SwapRelationships ==
  /\ run = 2 /\ pc = "start"
  /\ \E i \in 1..(Len(plan2.relationships) - 1) :
       plan2' = [plan2 EXCEPT !.relationships = Swap(@, i)]
  /\ UNCHANGED <<plan, run, pc, graph, violations, out1, out2, lastOp, lastError, answer>>
  /\ UNCHANGED <<callVars, serviceVars>>

(* a caller of build calls add_node on the graph it was given *)
TryAddNode ==
  /\ pc = "done" /\ ~graph.none
  /\ \E id \in {"c1", "r3"} :
       LET r == add_node(graph, id, "api_endpoint", id, NoProps)
       IN graph' = r.graph /\ lastError' = r.error
  /\ lastOp' = "add_node"
  /\ UNCHANGED <<plan, plan2, run, pc, violations, out1, out2, answer>>
  /\ UNCHANGED <<callVars, serviceVars>>

(* a caller of build calls add_edge on the graph it was given *)
TryAddEdge ==
  /\ pc = "done" /\ ~graph.none
  /\ \E target \in {"c1", "zz"} :
       LET r == add_edge(graph, "c1", target, "calls", NoMeta)
       IN graph' = r.graph /\ lastError' = r.error
  /\ lastOp' = "add_edge"
  /\ UNCHANGED <<plan, plan2, run, pc, violations, out1, out2, answer>>
  /\ UNCHANGED <<callVars, serviceVars>>

Next ==
  \/ Build
  \/ Evaluate
  \/ GenerateDfr
  \/ NextRun
  \/ SwapComponents
  \/ SwapResources
  \/ SwapRelationships
  \/ TryAddNode
  \/ TryAddEdge

Spec == Init /\ [][Next]_vars

(* ------------------------------------------------------------------ *)
(* A SystemGraph used directly: any sequence of add_node, add_edge,      *)
(* freeze and the queries, from the empty graph                          *)
(* ------------------------------------------------------------------ *)
GraphNodeIds == {"c1", "r1"}

GraphNodeType(id) == IF id = "c1" THEN "component" ELSE "api_endpoint"

GraphEdgeEnds == {<<"c1", "r1">>, <<"c1", "c1">>, <<"r1", "c1">>, <<"c1", "zz">>}

InitGraph ==
  /\ plan = PlanSchema(<<>>, <<>>)
  /\ plan2 = plan
  /\ run = 1
  /\ pc = "graph"
  /\ graph = SystemGraph
  /\ violations = <<>>
  /\ out1 = NoOut
  /\ out2 = NoOut
  /\ lastOp = ""
  /\ lastError = ""
  /\ answer = <<>>
  /\ NoCall /\ NoService

AddNode ==
  /\ \E id \in GraphNodeIds :
       LET r == add_node(graph, id, GraphNodeType(id), id, NoProps)
       IN graph' = r.graph /\ lastError' = r.error
  /\ lastOp' = "add_node"
  /\ UNCHANGED <<plan, plan2, run, pc, violations, out1, out2, answer>>
  /\ UNCHANGED <<callVars, serviceVars>>

AddEdge ==
  /\ Len(graph.edges) < MaxEdges
  /\ \E ends \in GraphEdgeEnds, type \in {"contains", "calls"} :
       LET r == add_edge(graph, ends[1], ends[2], type, NoMeta)
       IN graph' = r.graph /\ lastError' = r.error
  /\ lastOp' = "add_edge"
  /\ UNCHANGED <<plan, plan2, run, pc, violations, out1, out2, answer>>
  /\ UNCHANGED <<callVars, serviceVars>>

Freeze ==
  /\ graph' = freeze(graph)
  /\ lastOp' = "freeze"
  /\ lastError' = ""
  /\ UNCHANGED <<plan, plan2, run, pc, violations, out1, out2, answer>>
  /\ UNCHANGED <<callVars, serviceVars>>

QueryNodes ==
  /\ \E type \in {"component", "api_endpoint"} : answer' = find_nodes_by_type(graph, type)
  /\ lastOp' = "find_nodes_by_type"
  /\ lastError' = ""
  /\ UNCHANGED <<plan, plan2, run, pc, graph, violations, out1, out2>>
  /\ UNCHANGED <<callVars, serviceVars>>

QueryOutgoing ==
  /\ \E id \in GraphNodeIds, type \in {NoVal, "calls"} :
       answer' = find_outgoing_edges(graph, id, type)
  /\ lastOp' = "find_outgoing_edges"
  /\ lastError' = ""
  /\ UNCHANGED <<plan, plan2, run, pc, graph, violations, out1, out2>>
  /\ UNCHANGED <<callVars, serviceVars>>

QueryIncoming ==
  /\ \E id \in GraphNodeIds, type \in {NoVal, "calls"} :
       answer' = find_incoming_edges(graph, id, type)
  /\ lastOp' = "find_incoming_edges"
  /\ lastError' = ""
  /\ UNCHANGED <<plan, plan2, run, pc, graph, violations, out1, out2>>
  /\ UNCHANGED <<callVars, serviceVars>>

NextGraph ==
  \/ AddNode
  \/ AddEdge
  \/ Freeze
  \/ QueryNodes
  \/ QueryOutgoing
  \/ QueryIncoming

SpecGraph == InitGraph /\ [][NextGraph]_vars

(* ------------------------------------------------------------------ *)
(* generate_dfr called on any list of violations                         *)
(* ------------------------------------------------------------------ *)
DfrViolations ==
  {generate_violation(rule_id, <<text>>, node, NoData) :
     rule_id \in {"FE_BE_001", "DB_MIG_001"}, text \in {"x", "y"}, node \in {"c1", "r1"}}

InitDfr ==
  /\ plan = PlanSchema(<<>>, <<>>)
  /\ plan2 = plan
  /\ run = 1
  /\ pc = "evaluated"
  /\ graph = NoGraph
  /\ violations \in SeqsUpTo(DfrViolations, MaxViolations)
  /\ out1 = NoOut
  /\ out2 = NoOut
  /\ lastOp = ""
  /\ lastError = ""
  /\ answer = <<>>
  /\ NoCall /\ NoService

NextDfr == GenerateDfr

SpecDfr == InitDfr /\ [][NextDfr]_vars

(* ------------------------------------------------------------------ *)
(* canonicalize_json called on a list and on a reordering of it          *)
(* ------------------------------------------------------------------ *)
JsonScalars == {JInt(1), JInt(2), JStr(<<49>>), JStr(<<97>>)}

JsonIds == {JStr(<<97>>), JStr(<<49>>), JInt(1), JNull}

JsonInner == {JList(<<JInt(1), JInt(2)>>), JList(<<JInt(2), JInt(1)>>)}

JsonDicts ==
  {JDict([k \in {"v"} |-> v]) : v \in {JInt(1), JInt(2)}}
    \cup {JDict([k \in {"id", "v"} |-> IF k = "id" THEN id ELSE v]) :
            id \in JsonIds, v \in {JInt(1), JInt(2)}}
    \cup {JDict([k \in {"id", "xs"} |-> IF k = "id" THEN id ELSE xs]) :
            id \in {JStr(<<97>>), JInt(1)}, xs \in JsonInner}

JsonLists == {JList(items) : items \in SeqsUpTo(JsonScalars \cup JsonDicts, MaxItems)}

InitCanon ==
  /\ plan = PlanSchema(<<>>, <<>>)
  /\ plan2 = plan
  /\ run = 1
  /\ pc = "call"
  /\ graph = NoGraph
  /\ violations = <<>>
  /\ out1 = NoOut
  /\ out2 = NoOut
  /\ lastOp = ""
  /\ lastError = ""
  /\ answer = <<>>
  /\ registered = ACTIVE_EVALUATORS
  /\ \E data \in JsonLists : args = <<data, data>>
  /\ result = <<>>
  /\ NoService

(* the second value lists two neighbouring elements the other way round *)
SwapItems ==
  /\ pc = "call" /\ result = <<>>
  /\ \E i \in 1..(Len(args[2].items) - 1) :
       args' = [args EXCEPT ![2] = JList(Swap(args[2].items, i))]
  /\ UNCHANGED <<plan, plan2, run, pc, graph, violations, out1, out2, lastOp, lastError, answer>>
  /\ UNCHANGED <<registered, result, serviceVars>>

(* the same inside the list of one of the elements *)
SwapNested ==
  /\ pc = "call" /\ result = <<>>
  /\ \E i \in 1..Len(args[2].items) :
       /\ args[2].items[i].kind = "dict"
       /\ "xs" \in DOMAIN args[2].items[i].fields
       /\ args' = [args EXCEPT ![2] =
                     JList([args[2].items EXCEPT ![i] =
                              JDict([@.fields EXCEPT !["xs"] = JList(Swap(@.items, 1))])])]
  /\ UNCHANGED <<plan, plan2, run, pc, graph, violations, out1, out2, lastOp, lastError, answer>>
  /\ UNCHANGED <<registered, result, serviceVars>>

Canonicalize ==
  /\ pc = "call" /\ result = <<>>
  /\ result' = <<canonicalize(args[1]), canonicalize(args[2])>>
  /\ UNCHANGED <<plan, plan2, run, pc, graph, violations, out1, out2, lastOp, lastError, answer>>
  /\ UNCHANGED <<registered, args, serviceVars>>

NextCanon ==
  \/ SwapItems
  \/ SwapNested
  \/ Canonicalize

SpecCanon == InitCanon /\ [][NextCanon]_vars

(* ------------------------------------------------------------------ *)
(* generate_violation called twice                                       *)
(* ------------------------------------------------------------------ *)
DedupPaths == {JStr(<<47, 117>>), JList(<<JInt(1), JInt(2)>>), JList(<<JInt(2), JInt(1)>>)}

DedupDatas ==
  {<<>>}
    \cup {[k \in {"path"} |-> p] : p \in DedupPaths}
    \cup {[k \in {"rule_id"} |-> JStr(<<65>>)]}
    \cup {[k \in {"path", "rule_id"} |-> IF k = "path" THEN p ELSE JStr(<<65>>)] : p \in DedupPaths}

ViolationCalls ==
  {[rule_id |-> JStr(r), message |-> m, offending_node |-> JStr(n), dedup_data |-> d] :
     r \in {<<65>>, <<66>>}, m \in {"x", "y"}, n \in {<<99>>, <<100>>}, d \in DedupDatas}

InitViolation ==
  /\ plan = PlanSchema(<<>>, <<>>)
  /\ plan2 = plan
  /\ run = 1
  /\ pc = "violation"
  /\ graph = NoGraph
  /\ violations = <<>>
  /\ out1 = NoOut
  /\ out2 = NoOut
  /\ lastOp = ""
  /\ lastError = ""
  /\ answer = <<>>
  /\ registered = ACTIVE_EVALUATORS
  /\ args \in ViolationCalls \X ViolationCalls
  /\ result = <<>>
  /\ NoService

GenerateViolation ==
  /\ pc = "violation" /\ result = <<>>
  /\ result' = <<generate_violation_of(args[1]), generate_violation_of(args[2])>>
  /\ UNCHANGED <<plan, plan2, run, pc, graph, violations, out1, out2, lastOp, lastError, answer>>
  /\ UNCHANGED <<registered, args, serviceVars>>

NextViolation == GenerateViolation

SpecViolation == InitViolation /\ [][NextViolation]_vars

(* ------------------------------------------------------------------ *)
(* The pipeline run twice on one plan, the second time with the          *)
(* evaluators registered in another order                                *)
(* ------------------------------------------------------------------ *)
Orders ==
  {o \in [1..Len(ACTIVE_EVALUATORS) -> {ACTIVE_EVALUATORS[k] : k \in 1..Len(ACTIVE_EVALUATORS)}] :
     \A i, j \in 1..Len(ACTIVE_EVALUATORS) : i # j => o[i] # o[j]}

(* ACTIVE_EVALUATORS is given another order, and the loop runs over it *)
EvaluatePermuted ==
  /\ pc = "built" /\ run = 2
  /\ \E order \in Orders :
       /\ registered' = order
       /\ violations' = RunEvaluatorsIn(order, graph, InitialViolations)
  /\ pc' = "evaluated"
  /\ UNCHANGED <<plan, plan2, run, graph, out1, out2, lastOp, lastError, answer>>
  /\ UNCHANGED <<args, result, serviceVars>>

NextOrder ==
  \/ Build
  \/ Evaluate
  \/ EvaluatePermuted
  \/ GenerateDfr
  \/ NextRun

SpecOrder == Init /\ [][NextOrder]_vars

(* ------------------------------------------------------------------ *)
(* api/routes/validation.py validate_plan, served to concurrent         *)
(* requests over one database. Each request has its own session; the    *)
(* flush of db.commit() INSERTs the row and the COMMIT that follows     *)
(* makes it visible to the other sessions (READ COMMITTED). An INSERT   *)
(* whose key another open transaction has inserted waits for that       *)
(* transaction to end.                                                  *)
(* ------------------------------------------------------------------ *)
MaxRequests == 2

Requests == 1..MaxRequests

engineVars == <<plan, plan2, run, pc, graph, violations, out1, out2, lastOp, lastError, answer>>

ENGINE_VERSION == "engine"

(* json.dumps / json.loads of a list of dicts of str and None: the text
   holds the list, and nothing of the list is lost in it *)
json_dumps(v) == <<"json", v>>

json_loads(text) == text[2]

(* a backend with a GET and a POST endpoint on one path and a frontend
   calling GET on the path, the endpoints declared in either order: one
   plan hash, and API_METHOD_MATCH_001 when the POST endpoint comes first *)
MethodPlan(first, second) ==
  PlanSchema(<<Component("c1", "frontend", <<>>),
               Component("c2", "backend",
                 <<Resource(first, IF first = "r1" THEN "api" ELSE "api_endpoint",
                            IF first = "r1" THEN "GET" ELSE "POST", "/u", "schema"),
                   Resource(second, IF second = "r1" THEN "api" ELSE "api_endpoint",
                            IF second = "r1" THEN "GET" ELSE "POST", "/u", "schema")>>)>>,
             <<Relationship("c1", "c2", "calls", "GET", "/u")>>)

RequestPlans ==
  {MethodPlan("r1", "r2"), MethodPlan("r2", "r1"),
   PlanSchema(<<>>, <<>>),
   PlanSchema(<<Component("c1", "backend", <<Resource("r1", "api", "GET", "/u", NoVal)>>)>>, <<>>),
   PlanSchema(<<Component("c1", "frontend", <<>>)>>, <<Dangling>>)}

NoResponse == [kind |-> "none", status |-> 0, dfr |-> NoDfr]

(* raise HTTPException(status_code=...) *)
HTTPException(status) == [kind |-> "error", status |-> status, dfr |-> NoDfr]

(* return DFR(...) / return dfr *)
DfrResponse(d) == [kind |-> "dfr", status |-> 200, dfr |-> d]

(* ValidationResult(plan_hash, engine_version, dfr_json, passed), inserted
   by the transaction txn *)
ValidationResult(d, txn) ==
  [plan_hash |-> d.plan_hash, engine_version |-> ENGINE_VERSION,
   passed |-> d.passed, dfr_json |-> json_dumps(d.violations),
   txn |-> txn, committed |-> FALSE]

(* no row is ever stored beside a row of its key *)
uq_plan_engine_version_none(rows, row) == {}

(* UniqueConstraint('plan_hash', 'engine_version'): the rows that forbid
   row beside them *)
uq_plan_engine_version(rows, row) ==
  {i \in 1..Len(rows) :
     rows[i].plan_hash = row.plan_hash /\ rows[i].engine_version = row.engine_version}

(* db.query(ValidationResult).filter(plan_hash == .., engine_version == ..):
   the committed rows of the key; first() takes one of them *)
QueryValidationResult(rows, d) ==
  {rows[i] : i \in {k \in 1..Len(rows) :
     /\ rows[k].committed
     /\ rows[k].plan_hash = d.plan_hash
     /\ rows[k].engine_version = ENGINE_VERSION}}

(* DFR(plan_hash=existing.plan_hash, .., passed=existing.passed,
       violations=json.loads(existing.dfr_json)) *)
DfrOfRow(existing) ==
  [plan_hash |-> existing.plan_hash, passed |-> existing.passed,
   violations |-> json_loads(existing.dfr_json)]

NewRequest(p) == [pc |-> "start", plan |-> p, dfr |-> NoDfr, raced |-> FALSE]

InitValidate ==
  /\ plan = PlanSchema(<<>>, <<>>)
  /\ plan2 = plan
  /\ run = 1
  /\ pc = "serving"
  /\ graph = NoGraph
  /\ violations = <<>>
  /\ out1 = NoOut
  /\ out2 = NoOut
  /\ lastOp = ""
  /\ lastError = ""
  /\ answer = <<>>
  /\ NoCall
  /\ db = [validation_result |-> <<>>]
  /\ sessions \in [Requests -> {NewRequest(p) : p \in RequestPlans}]
  /\ clock = 0
  /\ responses = [r \in Requests |-> NoResponse]

(* steps 1 to 3: build (HTTP 400 on a BuildError), the evaluators,
   generate_dfr *)
CompileAndEvaluate(r) ==
  /\ sessions[r].pc = "start"
  /\ LET b == build(sessions[r].plan)
     IN IF b.code # ""
          THEN /\ sessions' = [sessions EXCEPT ![r].pc = "done"]
               /\ responses' = [responses EXCEPT ![r] = HTTPException(400)]
          ELSE /\ sessions' = [sessions EXCEPT
                      ![r].pc = "read",
                      ![r].dfr = generate_dfr(sessions[r].plan,
                                              RunEvaluators(b.graph, InitialViolations))]
               /\ UNCHANGED responses
  /\ UNCHANGED <<engineVars, callVars, db, clock>>

(* step 4, the read path: a cache hit returns the stored row *)
ReadCache(r) ==
  /\ sessions[r].pc = "read"
  /\ LET found == QueryValidationResult(db.validation_result, sessions[r].dfr)
     IN IF found = {}
          THEN /\ sessions' = [sessions EXCEPT ![r].pc = "write"]
               /\ UNCHANGED responses
          ELSE \E existing \in found :
                 /\ sessions' = [sessions EXCEPT ![r].pc = "done"]
                 /\ responses' = [responses EXCEPT ![r] = DfrResponse(DfrOfRow(existing))]
  /\ UNCHANGED <<engineVars, callVars, db, clock>>

(* step 5, db.add(result_record) and the flush of db.commit(): the INSERT
   raises IntegrityError beside a committed row of its key (db.rollback()
   follows), waits while an open transaction holds the key, and inserts
   otherwise *)
Insert(r) ==
  /\ sessions[r].pc = "write"
  /\ LET rows == db.validation_result
         row == ValidationResult(sessions[r].dfr, r)
         held == uq_plan_engine_version(rows, row)
     IN /\ \A i \in held : rows[i].committed
        /\ IF held # {}
             THEN /\ sessions' = [sessions EXCEPT ![r].pc = "retry", ![r].raced = TRUE]
                  /\ UNCHANGED db
             ELSE /\ sessions' = [sessions EXCEPT ![r].pc = "commit"]
                  /\ db' = [db EXCEPT !.validation_result = Append(rows, row)]
  /\ UNCHANGED <<engineVars, callVars, clock, responses>>

(* the COMMIT of db.commit(), and return dfr *)
Commit(r) ==
  /\ sessions[r].pc = "commit"
  /\ db' = [db EXCEPT !.validation_result =
              [i \in 1..Len(@) |-> IF @[i].txn = r THEN [@[i] EXCEPT !.committed = TRUE] ELSE @[i]]]
  /\ sessions' = [sessions EXCEPT ![r].pc = "done"]
  /\ responses' = [responses EXCEPT ![r] = DfrResponse(sessions[r].dfr)]
  /\ UNCHANGED <<engineVars, callVars, clock>>

(* except IntegrityError: the retried read returns the stored row, and
   HTTP 500 on a read miss *)
RetryRead(r) ==
  /\ sessions[r].pc = "retry"
  /\ LET found == QueryValidationResult(db.validation_result, sessions[r].dfr)
     IN IF found = {}
          THEN responses' = [responses EXCEPT ![r] = HTTPException(500)]
          ELSE \E existing \in found :
                 responses' = [responses EXCEPT ![r] = DfrResponse(DfrOfRow(existing))]
  /\ sessions' = [sessions EXCEPT ![r].pc = "done"]
  /\ UNCHANGED <<engineVars, callVars, db, clock>>

NextValidate ==
  \E r \in Requests :
    \/ CompileAndEvaluate(r)
    \/ ReadCache(r)
    \/ Insert(r)
    \/ Commit(r)
    \/ RetryRead(r)

SpecValidate == InitValidate /\ [][NextValidate]_vars

(* ------------------------------------------------------------------ *)
(* core/rate_limiter.py check_rate_limit, called concurrently for one   *)
(* user and one model over the table ai_rate_limit_tracker. The time is *)
(* counted in ticks; a call reads the time, then fetches its tracker    *)
(* FOR UPDATE (a row locked by an open transaction makes the fetch      *)
(* wait; rows not yet committed are not seen, and a table without a     *)
(* row locks nothing), then enforces the limits and commits.            *)
(* ------------------------------------------------------------------ *)
rpm_limit == 2

rpd_limit == 3

MaxCalls == rpm_limit + 2

(* timedelta(minutes=1) and timedelta(days=1) in ticks *)
Minute == 2

Day == 4

MaxClock == Day + 1

CallIds == 1..MaxCalls

NoTracker == [rpm_count |-> 0, rpd_count |-> 0, last_request_at |-> 0, daily_reset_at |-> 0,
              locked_by |-> 0]

(* AIRateLimitTracker(rpm_count=0, rpd_count=0, last_request_at=now,
                      daily_reset_at=now + timedelta(days=1)) *)
AIRateLimitTracker(now) ==
  [rpm_count |-> 0, rpd_count |-> 0, last_request_at |-> now, daily_reset_at |-> now + Day,
   locked_by |-> 0]

(* step 2: the counters after the resets of the expired windows *)
reset_counters(tracker, now) ==
  LET a == IF now - tracker.last_request_at > Minute
             THEN [tracker EXCEPT !.rpm_count = 0] ELSE tracker
  IN IF now >= a.daily_reset_at
       THEN [a EXCEPT !.rpd_count = 0, !.daily_reset_at = now + Day]
       ELSE a

(* step 4: a counter has reached its limit *)
LimitReached(tracker) ==
  tracker.rpm_count >= rpm_limit \/ tracker.rpd_count >= rpd_limit

NewCall == [pc |-> "start", now |-> 0, tracker |-> NoTracker, row |-> 0]

InitRate ==
  /\ plan = PlanSchema(<<>>, <<>>)
  /\ plan2 = plan
  /\ run = 1
  /\ pc = "limiting"
  /\ graph = NoGraph
  /\ violations = <<>>
  /\ out1 = NoOut
  /\ out2 = NoOut
  /\ lastOp = ""
  /\ lastError = ""
  /\ answer = <<>>
  /\ NoCall
  /\ db = [ai_rate_limit_tracker |-> <<>>]
  /\ sessions = [c \in CallIds |-> NewCall]
  /\ clock = 0
  /\ responses = <<>>

(* time passes *)
Tick ==
  /\ clock < MaxClock
  /\ clock' = clock + 1
  /\ UNCHANGED <<engineVars, callVars, db, sessions, responses>>

(* now = datetime.utcnow(); the calls are numbered as they arrive *)
ReadNow(c) ==
  /\ sessions[c].pc = "start"
  /\ \A b \in CallIds : b < c => sessions[b].pc # "start"
  /\ sessions' = [sessions EXCEPT ![c].pc = "fetch", ![c].now = clock]
  /\ UNCHANGED <<engineVars, callVars, db, clock, responses>>

(* step 1: query(...).with_for_update().first(), any row of the user and
   the model, locked for the call; a new tracker when there is none *)
FetchOrCreate(c) ==
  /\ sessions[c].pc = "fetch"
  /\ LET rows == db.ai_rate_limit_tracker
     IN IF rows = <<>>
          THEN /\ sessions' = [sessions EXCEPT
                      ![c].pc = "enforce",
                      ![c].tracker = AIRateLimitTracker(sessions[c].now),
                      ![c].row = 0]
               /\ UNCHANGED db
          ELSE \E i \in 1..Len(rows) :
                 /\ rows[i].locked_by = 0
                 /\ sessions' = [sessions EXCEPT
                        ![c].pc = "enforce", ![c].tracker = rows[i], ![c].row = i]
                 /\ db' = [db EXCEPT !.ai_rate_limit_tracker[i].locked_by = c]
  /\ UNCHANGED <<engineVars, callVars, clock, responses>>

(* the lock of the call's row is given back *)
Unlocked(rows, c) ==
  [i \in 1..Len(rows) |-> IF rows[i].locked_by = c THEN [rows[i] EXCEPT !.locked_by = 0] ELSE rows[i]]

(* steps 2 and 4: after the resets a counter has reached its limit: HTTP
   429, and the session is closed with nothing written *)
Reject(c) ==
  /\ sessions[c].pc = "enforce"
  /\ LimitReached(reset_counters(sessions[c].tracker, sessions[c].now))
  /\ db' = [db EXCEPT !.ai_rate_limit_tracker = Unlocked(@, c)]
  /\ sessions' = [sessions EXCEPT ![c].pc = "done"]
  /\ responses' = Append(responses,
        [call |-> c, status |-> 429, at |-> sessions[c].now, daily_reset |-> FALSE])
  /\ UNCHANGED <<engineVars, callVars, clock>>

(* steps 2, 5: after the resets both counters are below their limits: they
   are incremented, last_request_at = now, db.commit() *)
Accept(c) ==
  /\ sessions[c].pc = "enforce"
  /\ LET now == sessions[c].now
         t == reset_counters(sessions[c].tracker, now)
         counted == [t EXCEPT !.rpm_count = @ + 1, !.rpd_count = @ + 1,
                              !.last_request_at = now, !.locked_by = 0]
         rows == db.ai_rate_limit_tracker
     IN /\ ~LimitReached(t)
        /\ db' = [db EXCEPT !.ai_rate_limit_tracker =
                    IF sessions[c].row = 0 THEN Append(rows, counted)
                    ELSE [rows EXCEPT ![sessions[c].row] = counted]]
        /\ responses' = Append(responses,
              [call |-> c, status |-> 200, at |-> now,
               daily_reset |-> sessions[c].row = 0
                                 \/ t.daily_reset_at # sessions[c].tracker.daily_reset_at])
  /\ sessions' = [sessions EXCEPT ![c].pc = "done"]
  /\ UNCHANGED <<engineVars, callVars, clock>>

NextRate ==
  \/ Tick
  \/ \E c \in CallIds :
       \/ ReadNow(c)
       \/ FetchOrCreate(c)
       \/ Reject(c)
       \/ Accept(c)

SpecRate == InitRate /\ [][NextRate]_vars

(* ------------------------------------------------------------------ *)
(* What the claims speak of, stated on the plan                          *)
(* ------------------------------------------------------------------ *)
CurOut == IF run = 1 THEN out1 ELSE out2

(* the current run's build returned a graph / raised *)
Compiled == pc \in {"built", "evaluated"} \/ (pc = "done" /\ CurOut.kind = "dfr")
Failed == pc = "done" /\ CurOut.kind = "error"

BothDone == run = 2 /\ pc = "done"

ResourcesOf(p) == Flatten([i \in 1..Len(p.components) |-> p.components[i].resources])

ComponentIdsOf(p) == {p.components[i].id : i \in 1..Len(p.components)}
ResourceIdsOf(p) == {ResourcesOf(p)[k].id : k \in 1..Len(ResourcesOf(p))}
DeclaredIds(p) == ComponentIdsOf(p) \cup ResourceIdsOf(p)

UniqueIds(p) ==
  /\ Cardinality(ComponentIdsOf(p)) = Len(p.components)
  /\ Cardinality(ResourceIdsOf(p)) = Len(ResourcesOf(p))
  /\ ComponentIdsOf(p) \cap ResourceIdsOf(p) = {}

SetOf(s) == {s[i] : i \in 1..Len(s)}

(* C1: two plans that differ only in the declaration order of components,
   of the resources of a component or of relationships, ids unique, get
   the same plan_hash from generate_dfr *)
C1_HashOrderIndependent ==
  UniqueIds(plan) =>
    /\ generate_dfr(plan, <<>>).plan_hash = generate_dfr(plan2, <<>>).plan_hash
    /\ (BothDone /\ out1.kind = "dfr" /\ out2.kind = "dfr"
          => out1.dfr.plan_hash = out2.dfr.plan_hash)

C1_Witness ==
  /\ BothDone /\ out1.kind = "dfr" /\ out2.kind = "dfr"
  /\ UniqueIds(plan)
  /\ Len(plan.components) > 1
  /\ plan2.components[1].id # plan.components[1].id
  /\ \E c \in 1..Len(plan.components) : \E d \in 1..Len(plan2.components) :
       /\ plan.components[c].id = plan2.components[d].id
       /\ Len(plan.components[c].resources) > 1
       /\ plan.components[c].resources # plan2.components[d].resources
  /\ plan2.relationships # plan.relationships

(* C2: two plans that compile and have the same canonical form get the
   same passed flag and the same set of violations *)
C2_VerdictOrderIndependent ==
  (BothDone /\ out1.kind = "dfr" /\ out2.kind = "dfr"
     /\ out1.dfr.plan_hash = out2.dfr.plan_hash)
    => /\ out1.dfr.passed = out2.dfr.passed
       /\ SetOf(out1.dfr.violations) = SetOf(out2.dfr.violations)

(* C3: the pipeline run twice on one plan ends both times in the same
   compilation failure, or in the same plan_hash and the same ordered
   list of violations *)
C3_Deterministic ==
  (BothDone /\ plan2 = plan) => out1 = out2

C3_Witness ==
  /\ BothDone /\ plan2 = plan
  /\ out2.kind = "dfr" /\ Len(out2.dfr.violations) > 1

(* C4: build returns a frozen, completely built graph, on which add_node
   and add_edge fail, or raises and returns no graph *)
C4_FrozenOrNothing ==
  /\ Failed => graph.none
  /\ Compiled =>
       /\ ~graph.none
       /\ NodeIds(graph) = DeclaredIds(CurPlan)
       /\ Len(graph.edges) = Len(ResourcesOf(CurPlan)) + Len(CurPlan.relationships)
  /\ ~graph.none =>
       /\ graph.frozen
       /\ add_node(graph, "r3", "api_endpoint", "r3", NoProps).error = "RuntimeError"
       /\ add_edge(graph, "c1", "c1", "calls", NoMeta).error = "RuntimeError"
       /\ (lastOp \in {"add_node", "add_edge"} => lastError = "RuntimeError")

C4_Witness ==
  /\ Compiled /\ Len(graph.nodes) > 2 /\ Len(graph.edges) > 2
  /\ lastOp = "add_edge" /\ lastError = "RuntimeError"

(* the component kinds and raw resource kinds the claims admit *)
ClaimedComponentKinds == {"frontend", "backend", "database"}
ClaimedRawKinds == {"api", "api_endpoint", "table", "database_table", "migration"}

ValidKinds(p) ==
  /\ \A i \in 1..Len(p.components) : p.components[i].type \in ClaimedComponentKinds
  /\ \A k \in 1..Len(ResourcesOf(p)) : ResourcesOf(p)[k].type \in ClaimedRawKinds
  /\ \A i \in 1..Len(p.relationships) : p.relationships[i].type \in ALLOWED_EDGE_TYPES

IsDangling(p, rel) == rel.source \notin DeclaredIds(p) \/ rel.target \notin DeclaredIds(p)

Resolvable(p) == \A i \in 1..Len(p.relationships) : ~IsDangling(p, p.relationships[i])

(* the pair (method uppercased, path) of a property map *)
EndpointPair(props) == <<Upper(GetOrEmpty(props.method)), GetOrEmpty(props.path)>>

DeclaresRoute(props) == Truthy(props.method) /\ Truthy(props.path)

IsEndpointKind(t) == t \in {"api", "api_endpoint"}

(* the declarations of a plan in the order build reads them: a component,
   then its resources, then the next component *)
Declaration(x) ==
  [id |-> x.id,
   type |-> x.type,
   properties |-> [method |-> x.properties.method, path |-> x.properties.path]]

DeclarationsOf(p) ==
  Flatten([i \in 1..Len(p.components) |->
             <<[id |-> p.components[i].id, type |-> "component", properties |-> NoMeta]>>
               \o [k \in 1..Len(p.components[i].resources) |->
                     Declaration(p.components[i].resources[k])]])

(* the k-th declaration is the last one of its id *)
IsLastDeclaration(p, k) ==
  \A j \in (k + 1)..Len(DeclarationsOf(p)) : DeclarationsOf(p)[j].id # DeclarationsOf(p)[k].id

EndpointNodes(g) == find_nodes_by_type(g, "api_endpoint")

(* C5, as claimed: a returned graph has no two api_endpoint nodes with the
   same pair, and a plan with two endpoints of the same pair fails with
   UNIQUE_ENDPOINT naming both *)
C5_AsClaimed ==
  /\ ~graph.none =>
       \A i, j \in 1..Len(EndpointNodes(graph)) :
         i < j => EndpointPair(EndpointNodes(graph)[i].properties)
                    # EndpointPair(EndpointNodes(graph)[j].properties)
  /\ ((Compiled \/ Failed)
       /\ \E k, j \in 1..Len(ResourcesOf(CurPlan)) :
            /\ k < j
            /\ ResourcesOf(CurPlan)[k].id # ResourcesOf(CurPlan)[j].id
            /\ IsEndpointKind(ResourcesOf(CurPlan)[k].type)
            /\ IsEndpointKind(ResourcesOf(CurPlan)[j].type)
            /\ EndpointPair(ResourcesOf(CurPlan)[k].properties)
                 = EndpointPair(ResourcesOf(CurPlan)[j].properties))
      => (Failed /\ CurOut.code = "UNIQUE_ENDPOINT")

(* declarations k < j collide: endpoints of different ids, each the last
   declaration of its id, both with a method and a path, of the same pair *)
Collide(p, k, j) ==
  LET a == DeclarationsOf(p)[k]
      b == DeclarationsOf(p)[j]
  IN /\ k < j /\ a.id # b.id
     /\ IsEndpointKind(a.type) /\ IsEndpointKind(b.type)
     /\ IsLastDeclaration(p, k) /\ IsLastDeclaration(p, j)
     /\ DeclaresRoute(a.properties) /\ DeclaresRoute(b.properties)
     /\ EndpointPair(a.properties) = EndpointPair(b.properties)

HasCollision(p) == \E k, j \in 1..Len(DeclarationsOf(p)) : Collide(p, k, j)

(* C5, amended: a returned graph has no two api_endpoint nodes that both
   declare a method and a path and have the same pair; a plan with valid
   kinds and declared relationship ends fails with UNIQUE_ENDPOINT, naming
   two colliding ids, exactly when two endpoints collide *)
C5_UniqueEndpoint ==
  /\ ~graph.none =>
       \A i, j \in 1..Len(EndpointNodes(graph)) :
         (i < j /\ DeclaresRoute(EndpointNodes(graph)[i].properties)
                /\ DeclaresRoute(EndpointNodes(graph)[j].properties))
           => EndpointPair(EndpointNodes(graph)[i].properties)
                # EndpointPair(EndpointNodes(graph)[j].properties)
  /\ ((Compiled \/ Failed) /\ ValidKinds(CurPlan) /\ Resolvable(CurPlan))
       => /\ HasCollision(CurPlan) <=> (Failed /\ CurOut.code = "UNIQUE_ENDPOINT")
          /\ (Failed /\ CurOut.code = "UNIQUE_ENDPOINT") =>
               \E k, j \in 1..Len(DeclarationsOf(CurPlan)) :
                 /\ Collide(CurPlan, k, j)
                 /\ SetOf(CurOut.detail) = {DeclarationsOf(CurPlan)[k].id, DeclarationsOf(CurPlan)[j].id}
                 /\ Len(CurOut.detail) = 2

C5_Witness ==
  /\ Failed /\ CurOut.code = "UNIQUE_ENDPOINT"
  /\ \E k, j \in 1..Len(DeclarationsOf(CurPlan)) :
       /\ Collide(CurPlan, k, j)
       /\ DeclarationsOf(CurPlan)[k].properties.method = "GET"
       /\ DeclarationsOf(CurPlan)[j].properties.method = "get"
       /\ DeclarationsOf(CurPlan)[k].type = "api"
       /\ DeclarationsOf(CurPlan)[j].type = "api_endpoint"

(* the graph build checks for ambiguity: steps 1 and 2 *)
GraphOfPlan(p) ==
  AddRelationships(AddComponents(SystemGraph, p.components, 1).graph, p.relationships, 1).graph

(* the api_endpoint 'contains' children of the target that match the call *)
MatchingChildren(g, rel) ==
  {n \in SetOf(g.nodes) :
     /\ \E e \in SetOf(g.edges) : e.type = "contains" /\ e.source = rel.target /\ e.target = n.id
     /\ n.type = "api_endpoint"
     /\ n.properties.path = rel.metadata.path
     /\ (Truthy(rel.metadata.method) =>
           Upper(GetOrEmpty(n.properties.method)) = Upper(rel.metadata.method))}

AmbiguousCall(p, rel) ==
  /\ rel.type = "calls"
  /\ Truthy(rel.metadata.path)
  /\ rel.target \in ComponentIdsOf(p)
  /\ Cardinality(MatchingChildren(GraphOfPlan(p), rel)) > 1

(* C6: a plan with valid kinds, declared relationship ends and unique
   endpoints fails with NO_AMBIGUOUS_ROUTE exactly when a call with a path
   to a component matches more than one api_endpoint child of it *)
C6_AmbiguousExactly ==
  ((Compiled \/ Failed) /\ ValidKinds(CurPlan) /\ Resolvable(CurPlan)
     /\ ~(Failed /\ CurOut.code = "UNIQUE_ENDPOINT"))
    => ((Failed /\ CurOut.code = "NO_AMBIGUOUS_ROUTE")
          <=> \E i \in 1..Len(CurPlan.relationships) :
                AmbiguousCall(CurPlan, CurPlan.relationships[i]))

FirstDangling(p) ==
  CHOOSE i \in 1..Len(p.relationships) :
    /\ IsDangling(p, p.relationships[i])
    /\ \A j \in 1..(i - 1) : ~IsDangling(p, p.relationships[j])

FirstMissing(p) ==
  LET rel == p.relationships[FirstDangling(p)]
  IN IF rel.source \notin DeclaredIds(p) THEN rel.source ELSE rel.target

(* C7, as claimed: a relationship end that is declared nowhere makes build
   fail with DEPENDENCY_EXISTS naming it, and only such a relationship *)
C7_AsClaimed ==
  (Compiled \/ Failed) =>
    /\ ~Resolvable(CurPlan) =>
         (Failed /\ CurOut.code = "DEPENDENCY_EXISTS"
            /\ CurOut.detail[1] \notin DeclaredIds(CurPlan))
    /\ Resolvable(CurPlan) => ~(Failed /\ CurOut.code = "DEPENDENCY_EXISTS")

(* C7, amended: in a plan whose component and resource kinds are all valid
   a relationship end that is declared nowhere makes build fail with
   DEPENDENCY_EXISTS, naming the first such end; a plan whose relationship
   ends are all declared never fails with DEPENDENCY_EXISTS *)
C7_DanglingReported ==
  (Compiled \/ Failed) =>
    /\ (ValidKinds(CurPlan) /\ ~Resolvable(CurPlan)) =>
         (Failed /\ CurOut.code = "DEPENDENCY_EXISTS"
            /\ CurOut.detail = <<FirstMissing(CurPlan)>>)
    /\ Resolvable(CurPlan) => ~(Failed /\ CurOut.code = "DEPENDENCY_EXISTS")

C7_Witness ==
  /\ Failed /\ CurOut.code = "DEPENDENCY_EXISTS" /\ CurOut.detail = <<"zz">>
  /\ Len(CurPlan.relationships) = 2
  /\ CurPlan.relationships[1].source = CurPlan.relationships[1].target
  /\ CurPlan.relationships[2].source \in ResourceIdsOf(CurPlan)
  /\ CurPlan.relationships[2].target = "zz"

BadComponents(p) == {i \in 1..Len(p.components) : p.components[i].type \notin ClaimedComponentKinds}

(* C8: a plan with a component of a kind outside {frontend, backend,
   database} never compiles; when that component is the only defect the
   failure is 'unknown component type' naming the kind *)
C8_ComponentWhitelist ==
  (Compiled \/ Failed) =>
    /\ BadComponents(CurPlan) # {} => Failed
    /\ (Cardinality(BadComponents(CurPlan)) = 1
          /\ \A k \in 1..Len(ResourcesOf(CurPlan)) : ResourcesOf(CurPlan)[k].type \in ClaimedRawKinds)
         => /\ Failed /\ CurOut.code = "UNKNOWN_COMPONENT_TYPE"
            /\ \E i \in BadComponents(CurPlan) : CurOut.detail = <<CurPlan.components[i].type>>

C8_Witness ==
  /\ Failed /\ CurOut.code = "UNKNOWN_COMPONENT_TYPE" /\ CurOut.detail = <<"cli">>
  /\ Len(CurPlan.components) = 2 /\ CurPlan.components[2].type = "cli"
  /\ Resolvable(CurPlan) /\ Len(CurPlan.relationships) > 0

(* the kind a raw resource kind stands for *)
ClaimedKind(raw) ==
  CASE raw \in {"api", "api_endpoint"} -> "api_endpoint"
    [] raw \in {"table", "database_table"} -> "database_table"
    [] raw = "migration" -> "migration"
    [] OTHER -> "rejected"

(* C9: in a plan that compiles the node of every resource has the kind its
   raw kind stands for; a resource of any other raw kind keeps the plan
   from compiling, with 'unknown resource type' unless a component kind is
   rejected first; every resource node of a graph has one of the three
   kinds *)
C9_ResourceKinds ==
  /\ Compiled =>
       \A k \in 1..Len(ResourcesOf(CurPlan)) :
         get_node(graph, ResourcesOf(CurPlan)[k].id).type = ClaimedKind(ResourcesOf(CurPlan)[k].type)
  /\ ((Compiled \/ Failed)
        /\ \E k \in 1..Len(ResourcesOf(CurPlan)) : ResourcesOf(CurPlan)[k].type \notin ClaimedRawKinds)
       => /\ Failed
          /\ BadComponents(CurPlan) = {} => CurOut.code = "UNKNOWN_RESOURCE_TYPE"
  /\ ~graph.none =>
       \A i \in 1..Len(graph.nodes) :
         graph.nodes[i].type \in {"component", "api_endpoint", "database_table", "migration"}

(* C10: once a graph is frozen it stays frozen, add_node and add_edge fail
   with the RuntimeError and change neither nodes nor edges, and the
   queries answer without an error *)
C10_FreezeOneWay ==
  [][graph.frozen =>
       /\ graph'.frozen
       /\ graph'.nodes = graph.nodes
       /\ graph'.edges = graph.edges
       /\ (lastOp' \in {"add_node", "add_edge"} => lastError' = "RuntimeError")
       /\ (lastOp' \notin {"add_node", "add_edge"} => lastError' = "")]_vars

C10_Witness ==
  /\ graph.frozen /\ Len(graph.edges) > 1 /\ Len(graph.nodes) > 1
  /\ lastOp = "add_edge" /\ lastError = "RuntimeError"

(* C11: on an unfrozen graph add_edge raises the ValueError and adds
   nothing when its source or its target is not a node, and both ends of
   every edge of a graph are nodes of it *)
C11_EdgeEndsExist ==
  /\ \A i \in 1..Len(graph.edges) :
       has_node(graph, graph.edges[i].source) /\ has_node(graph, graph.edges[i].target)
  /\ ~graph.frozen =>
       \A ends \in GraphEdgeEnds \cup {<<"zz", "c1">>} :
         (~has_node(graph, ends[1]) \/ ~has_node(graph, ends[2]))
           => /\ add_edge(graph, ends[1], ends[2], "calls", NoMeta).error = "ValueError"
              /\ add_edge(graph, ends[1], ends[2], "calls", NoMeta).graph = graph
  /\ (lastOp = "add_edge" /\ lastError = "") => graph.edges # <<>>

C11_Witness ==
  /\ ~graph.frozen /\ lastOp = "add_edge" /\ lastError = "ValueError"
  /\ Len(graph.edges) > 1 /\ ~has_node(graph, "r1")

(* the edges into / out of a node, of a kind or of any kind, in the order
   add_edge inserted them *)
InsertedOutgoing(g, id, edge_type) ==
  SelectSeq(g.edges, LAMBDA e : e.source = id /\ (edge_type = NoVal \/ e.type = edge_type))

InsertedIncoming(g, id, edge_type) ==
  SelectSeq(g.edges, LAMBDA e : e.target = id /\ (edge_type = NoVal \/ e.type = edge_type))

(* the nodes of a kind in the order add_node first inserted their ids *)
InsertedNodes(g, type) == SelectSeq(g.nodes, LAMBDA n : n.type = type)

(* C12: find_nodes_by_type answers the matching nodes in the order add_node
   inserted them, find_incoming_edges and find_outgoing_edges answer the
   matching edges of the node in the order add_edge inserted them, parallel
   edges inserted between other edges included *)
C12_InsertionOrder ==
  /\ \A type \in {"component", "api_endpoint"} :
       find_nodes_by_type(graph, type) = InsertedNodes(graph, type)
  /\ \A id \in GraphNodeIds, type \in {NoVal, "calls", "contains"} :
       /\ find_outgoing_edges(graph, id, type) = InsertedOutgoing(graph, id, type)
       /\ find_incoming_edges(graph, id, type) = InsertedIncoming(graph, id, type)
  /\ lastOp = "find_outgoing_edges" =>
       \E id \in GraphNodeIds, type \in {NoVal, "calls"} : answer = InsertedOutgoing(graph, id, type)
  /\ lastOp = "find_incoming_edges" =>
       \E id \in GraphNodeIds, type \in {NoVal, "calls"} : answer = InsertedIncoming(graph, id, type)
  /\ lastOp = "find_nodes_by_type" =>
       \E type \in {"component", "api_endpoint"} : answer = InsertedNodes(graph, type)

(* the 'contains' edges into a node *)
ContainsInto(g, id) == SelectSeq(g.edges, LAMBDA e : e.type = "contains" /\ e.target = id)

(* C13: the graph of a plan that compiles has one node per component and
   one per resource, no two nodes of one id, and for every resource one
   'contains' edge into its node, from the component that declares it *)
C13_OneNodePerDeclaration ==
  Compiled =>
    /\ Len(graph.nodes) = Len(CurPlan.components) + Len(ResourcesOf(CurPlan))
    /\ \A i, j \in 1..Len(graph.nodes) : graph.nodes[i].id = graph.nodes[j].id => i = j
    /\ \A i \in 1..Len(CurPlan.components) :
         \A k \in 1..Len(CurPlan.components[i].resources) :
           LET into == ContainsInto(graph, CurPlan.components[i].resources[k].id)
           IN Len(into) = 1 /\ into[1].source = CurPlan.components[i].id

(* the violations of one rule among those the evaluators returned *)
ViolationsOf(rule_id) == SelectSeq(violations, LAMBDA v : v.rule_id = rule_id)

(* the nodes a call may be resolved to: the api_endpoint 'contains'
   children of a target component that have the call's path, the target
   itself when there is none or when the target is no component *)
PathChildren(g, e) ==
  {n \in SetOf(g.nodes) :
     /\ n.type = "api_endpoint"
     /\ n.properties.path = e.metadata.path
     /\ \E c \in SetOf(g.edges) : c.type = "contains" /\ c.source = e.target /\ c.target = n.id}

ResolvedTargets(g, e) ==
  IF get_node(g, e.target).type = "component" /\ PathChildren(g, e) # {}
    THEN PathChildren(g, e)
    ELSE {get_node(g, e.target)}

(* the components that contain a node *)
ParentsOf(g, n) ==
  {get_node(g, c.source) : c \in {c \in SetOf(g.edges) : c.type = "contains" /\ c.target = n.id}}

(* a node outside every backend: it has no parent, or none of its parents
   is a backend component *)
OutsideBackend(g, n) ==
  \A p \in ParentsOf(g, n) : ~(p.type = "component" /\ p.properties.comp_type = "backend")

(* a node with no parent, or with some parent that is no backend component;
   the same as OutsideBackend when a node has one parent at most *)
NotInBackend(g, n) ==
  \/ ParentsOf(g, n) = {}
  \/ \E p \in ParentsOf(g, n) : ~(p.type = "component" /\ p.properties.comp_type = "backend")

FrontendCall(g, e) ==
  /\ e.type = "calls"
  /\ get_node(g, e.source).type = "component"
  /\ get_node(g, e.source).properties.comp_type = "frontend"
  /\ Truthy(e.metadata.path)

(* the 'calls' edges FE_BE_001 has to report, and those it may report: the
   two differ only for a resolved target with parents of both sorts *)
FeBeDue(g, e) == FrontendCall(g, e) /\ \A n \in ResolvedTargets(g, e) : OutsideBackend(g, n)

FeBeAllowed(g, e) == FrontendCall(g, e) /\ \E n \in ResolvedTargets(g, e) : NotInBackend(g, n)

RECURSIVE Masked(_, _, _)
Masked(s, mask, k) ==
  IF k > Len(s) THEN <<>>
  ELSE (IF mask[k] THEN <<s[k]>> ELSE <<>>) \o Masked(s, mask, k + 1)

(* C14: on a built graph FE_BE_001 reports, once each, with the caller as
   offending node and the target and the path as metadata, exactly the
   'calls' edges from a frontend component that carry a path and whose
   resolved target has no parent or a parent that is no backend; a call
   without a path or from another source is never reported *)
C14_FeBeExactly ==
  pc = "evaluated" =>
    LET fe == ViolationsOf("FE_BE_001")
        allowed == SelectSeq(GraphEdges(graph), LAMBDA e : FeBeAllowed(graph, e))
    IN \E mask \in [1..Len(allowed) -> BOOLEAN] :
         LET reported == Masked(allowed, mask, 1)
         IN /\ \A k \in 1..Len(allowed) : FeBeDue(graph, allowed[k]) => mask[k]
            /\ Len(fe) = Len(reported)
            /\ \A k \in 1..Len(fe) :
                 /\ fe[k].offending_node = reported[k].source
                 /\ fe[k].metadata.data.path = reported[k].metadata.path
                 /\ fe[k].metadata.data.target \in {n.id : n \in ResolvedTargets(graph, reported[k])}
                 /\ fe[k].metadata.data = [NoData EXCEPT !.target = fe[k].metadata.data.target,
                                                         !.path = fe[k].metadata.data.path]

(* an endpoint of a database, called by its path through the component *)
C14_Witness ==
  /\ pc = "evaluated" /\ Len(ViolationsOf("FE_BE_001")) = 1
  /\ ViolationsOf("FE_BE_001")[1].offending_node = "c1"
  /\ ViolationsOf("FE_BE_001")[1].metadata.data.target = "r2"
  /\ \E i \in 1..Len(graph.edges) :
       graph.edges[i].type = "calls" /\ graph.edges[i].target = "c2"
  /\ UniqueIds(CurPlan)

(* every declaration of the id is a component of the kind *)
IsComponentOfKind(p, id, kind) ==
  /\ id \in ComponentIdsOf(p) /\ id \notin ResourceIdsOf(p)
  /\ \A i \in 1..Len(p.components) : p.components[i].id = id => p.components[i].type = kind

(* the component declares an endpoint with the path *)
DeclaresPath(p, id, path) ==
  \E i \in 1..Len(p.components) :
    /\ p.components[i].id = id
    /\ \E k \in 1..Len(p.components[i].resources) :
         /\ IsEndpointKind(p.components[i].resources[k].type)
         /\ p.components[i].resources[k].properties.path = path

(* a call, with a path and a method, from a frontend component to a backend
   component that has no endpoint with that path *)
UnresolvedCall(p, rel) ==
  /\ rel.type = "calls"
  /\ Truthy(rel.metadata.path) /\ Truthy(rel.metadata.method)
  /\ IsComponentOfKind(p, rel.source, "frontend")
  /\ IsComponentOfKind(p, rel.target, "backend")
  /\ ~DeclaresPath(p, rel.target, rel.metadata.path)

(* a plan whose one relationship is an unresolved call and that has no
   other defect *)
UnresolvedCallPlan(p) ==
  /\ Len(p.relationships) = 1 /\ UnresolvedCall(p, p.relationships[1])
  /\ ValidKinds(p) /\ ~HasCollision(p)

(* C15: a plan in which a frontend component calls, with a path and a
   method, a backend component without an endpoint of that path compiles,
   and its evaluation yields one FE_BE_001 violation, for the caller, no
   API_METHOD_MATCH_001 violation, and passed = false *)
C15_UnresolvedCallReported ==
  ((Compiled \/ Failed) /\ UnresolvedCallPlan(CurPlan)) =>
    /\ Compiled
    /\ pc = "evaluated" =>
         /\ Len(ViolationsOf("FE_BE_001")) = 1
         /\ ViolationsOf("FE_BE_001")[1].offending_node = CurPlan.relationships[1].source
         /\ ViolationsOf("FE_BE_001")[1].metadata.data.path = CurPlan.relationships[1].metadata.path
         /\ ViolationsOf("API_METHOD_MATCH_001") = <<>>
    /\ pc = "done" =>
         /\ ~CurOut.dfr.passed
         /\ Len(SelectSeq(CurOut.dfr.violations, LAMBDA v : v.rule_id = "FE_BE_001")) = 1

C15_Witness ==
  /\ pc = "done" /\ UnresolvedCallPlan(CurPlan)
  /\ Len(CurOut.dfr.violations) = 1
  /\ Len(ResourcesOf(CurPlan)) = 2

(* C16: a call from a frontend component to a backend component whose path
   matches no endpoint of it is rejected when the plan is compiled: the
   answer is a compilation error and no DFR *)
C16_UnresolvedCallRejected ==
  ((Compiled \/ Failed) /\ UnresolvedCallPlan(CurPlan)) =>
    /\ Failed
    /\ graph.none
    /\ CurOut.kind = "error" /\ CurOut.dfr = NoDfr

(* the nodes a call with a method is resolved to: for a target component
   the children the Builder's resolution keeps (path and method), the
   children of that path when it keeps none, nothing when the call has no
   path; otherwise the target itself *)
MethodTargets(g, e) ==
  IF get_node(g, e.target).type = "component"
    THEN IF ~Truthy(e.metadata.path) THEN {}
         ELSE IF MatchingChildren(g, e) # {} THEN MatchingChildren(g, e)
         ELSE PathChildren(g, e)
    ELSE {get_node(g, e.target)}

(* an api_endpoint that declares a method other than the call's *)
MethodDiffers(n, e) ==
  /\ n.type = "api_endpoint"
  /\ Truthy(n.properties.method)
  /\ Upper(n.properties.method) # Upper(e.metadata.method)

MethodCall(e) == e.type = "calls" /\ Truthy(e.metadata.method)

(* the 'calls' edges API_METHOD_MATCH_001 has to report and those it may
   report: the two differ only when the call resolves to several nodes *)
MethodDue(g, e) ==
  /\ MethodCall(e) /\ MethodTargets(g, e) # {}
  /\ \A n \in MethodTargets(g, e) : MethodDiffers(n, e)

MethodAllowed(g, e) ==
  MethodCall(e) /\ \E n \in MethodTargets(g, e) : MethodDiffers(n, e)

(* C17: on a built graph API_METHOD_MATCH_001 reports, once each, with the
   call's method, the target's method and the path as metadata, exactly the
   'calls' edges that carry a method and whose resolved target is an
   api_endpoint declaring another method, case ignored *)
C17_MethodMismatchExactly ==
  pc = "evaluated" =>
    LET mm == ViolationsOf("API_METHOD_MATCH_001")
        allowed == SelectSeq(GraphEdges(graph), LAMBDA e : MethodAllowed(graph, e))
    IN \E mask \in [1..Len(allowed) -> BOOLEAN] :
         LET reported == Masked(allowed, mask, 1)
         IN /\ \A k \in 1..Len(allowed) : MethodDue(graph, allowed[k]) => mask[k]
            /\ Len(mm) = Len(reported)
            /\ \A k \in 1..Len(mm) :
                 /\ mm[k].offending_node = reported[k].source
                 /\ mm[k].metadata.data =
                      [NoData EXCEPT !.call_method = reported[k].metadata.method,
                                     !.target_method = mm[k].metadata.data.target_method,
                                     !.path = reported[k].metadata.path]
                 /\ \E n \in MethodTargets(graph, reported[k]) :
                      MethodDiffers(n, reported[k])
                        /\ mm[k].metadata.data.target_method = n.properties.method

(* a 'creates' edge from a migration node into the node *)
CreatedByMigration(g, n) ==
  \E e \in SetOf(g.edges) :
    e.type = "creates" /\ e.target = n.id /\ get_node(g, e.source).type = "migration"

(* C18: on a built graph DB_MIG_001 reports, once each and naming it, the
   database_table nodes without a 'creates' edge from a migration node,
   and no table that has one *)
C18_DbMigExactly ==
  pc = "evaluated" =>
    LET mig == ViolationsOf("DB_MIG_001")
        due == SelectSeq(graph.nodes,
                 LAMBDA n : n.type = "database_table" /\ ~CreatedByMigration(graph, n))
    IN /\ Len(mig) = Len(due)
       /\ \A k \in 1..Len(mig) :
            /\ mig[k].offending_node = due[k].id
            /\ mig[k].metadata.data = [NoData EXCEPT !.table_name = due[k].name]

(* a table created by its component and by itself, not by a migration *)
C18_Witness ==
  /\ pc = "evaluated" /\ Len(ViolationsOf("DB_MIG_001")) = 1
  /\ ViolationsOf("DB_MIG_001")[1].offending_node = "r1"
  /\ \E e \in SetOf(graph.edges) : e.type = "creates" /\ e.target = "r1" /\ e.source = "c1"
  /\ \E e \in SetOf(graph.edges) : e.type = "creates" /\ e.target = "r1" /\ e.source = "r1"

(* the node has one of the properties schema, request_schema,
   response_schema *)
DeclaresSchema(n) ==
  \E key \in SchemaKeys :
    CASE key = "schema" -> n.properties.schema # NoVal
      [] key = "request_schema" -> n.properties.request_schema # NoVal
      [] key = "response_schema" -> n.properties.response_schema # NoVal

(* C19: on a built graph API_SCHEMA_001 reports, once each, naming it and
   with its path as metadata, the api_endpoint nodes that have none of
   schema, request_schema and response_schema, and no endpoint that has one
   of the three *)
C19_ApiSchemaExactly ==
  pc = "evaluated" =>
    LET sc == ViolationsOf("API_SCHEMA_001")
        due == SelectSeq(graph.nodes, LAMBDA n : n.type = "api_endpoint" /\ ~DeclaresSchema(n))
    IN /\ Len(sc) = Len(due)
       /\ \A k \in 1..Len(sc) :
            /\ sc[k].offending_node = due[k].id
            /\ sc[k].metadata.data = [NoData EXCEPT !.path = due[k].properties.path]

(* one endpoint with a response_schema only, one with no key *)
C19_Witness ==
  /\ pc = "evaluated" /\ Len(ViolationsOf("API_SCHEMA_001")) = 1
  /\ ViolationsOf("API_SCHEMA_001")[1].offending_node = "r2"
  /\ get_node(graph, "r1").properties.response_schema # NoVal
  /\ get_node(graph, "r1").properties.schema = NoVal
  /\ get_node(graph, "r1").properties.request_schema = NoVal

(* a call from a frontend component straight to an endpoint, with a path
   other than the one the endpoint declares *)
MismatchedCall(p, rel) ==
  /\ rel.type = "calls"
  /\ Truthy(rel.metadata.path)
  /\ IsComponentOfKind(p, rel.source, "frontend")
  /\ rel.target \notin ComponentIdsOf(p)
  /\ \E k \in 1..Len(ResourcesOf(p)) : ResourcesOf(p)[k].id = rel.target
  /\ \A k \in 1..Len(ResourcesOf(p)) :
       ResourcesOf(p)[k].id = rel.target =>
         /\ IsEndpointKind(ResourcesOf(p)[k].type)
         /\ ResourcesOf(p)[k].properties.path # rel.metadata.path

MismatchedCallPlan(p) ==
  /\ Len(p.relationships) = 1 /\ MismatchedCall(p, p.relationships[1])
  /\ ValidKinds(p) /\ ~HasCollision(p)

(* C20: a plan in which a frontend component calls an endpoint by its id
   with a path other than the endpoint's compiles, and evaluation reports a
   violation for that call, so that passed = false *)
C20_PathMismatchReported ==
  ((Compiled \/ Failed) /\ MismatchedCallPlan(CurPlan)) =>
    /\ Compiled
    /\ pc = "evaluated" =>
         \E k \in 1..Len(violations) :
           /\ violations[k].offending_node = CurPlan.relationships[1].source
           /\ violations[k].rule_id \in {"FE_BE_001", "API_METHOD_MATCH_001"}
    /\ pc = "done" => ~CurOut.dfr.passed

(* the resources of a plan that a rule has to report when nothing refers
   to them: the tables, and the endpoints without a schema property *)
LoneDue(p, rule_id) ==
  {k \in 1..Len(ResourcesOf(p)) :
     LET res == ResourcesOf(p)[k]
     IN CASE rule_id = "DB_MIG_001" -> ClaimedKind(res.type) = "database_table"
          [] rule_id = "API_SCHEMA_001" ->
               ClaimedKind(res.type) = "api_endpoint" /\ ~DeclaresSchema(res)
          [] OTHER -> FALSE}

(* the violations of the rule are one for each of these resources *)
OnePerResource(p, rule_id) ==
  /\ Len(ViolationsOf(rule_id)) = Cardinality(LoneDue(p, rule_id))
  /\ \A k \in LoneDue(p, rule_id) :
       \E j \in 1..Len(ViolationsOf(rule_id)) :
         ViolationsOf(rule_id)[j].offending_node = ResourcesOf(p)[k].id

(* C21: for a plan without relationships that compiles the violations are
   one DB_MIG_001 for each database_table resource and one API_SCHEMA_001
   for each api_endpoint resource without a schema property, and none of
   FE_BE_001 or API_METHOD_MATCH_001; the DFR has passed = true exactly
   when there is no such resource *)
C21_NoRelationships ==
  (Compiled /\ CurPlan.relationships = <<>>) =>
    /\ pc = "evaluated" =>
         /\ OnePerResource(CurPlan, "DB_MIG_001")
         /\ OnePerResource(CurPlan, "API_SCHEMA_001")
         /\ ViolationsOf("FE_BE_001") = <<>>
         /\ ViolationsOf("API_METHOD_MATCH_001") = <<>>
    /\ pc = "done" =>
         /\ CurOut.dfr.passed <=>
              (LoneDue(CurPlan, "DB_MIG_001") \cup LoneDue(CurPlan, "API_SCHEMA_001") = {})
         /\ Len(CurOut.dfr.violations)
              = Cardinality(LoneDue(CurPlan, "DB_MIG_001"))
                  + Cardinality(LoneDue(CurPlan, "API_SCHEMA_001"))

(* how often a value occurs in a list *)
Count(s, x) == Cardinality({i \in 1..Len(s) : s[i] = x})

SameBag(s, t) ==
  /\ Len(s) = Len(t)
  /\ \A x \in SetOf(s) \cup SetOf(t) : Count(s, x) = Count(t, x)

Ascending(vs) ==
  \A i \in 1..Len(vs) : \A j \in (i + 1)..Len(vs) :
    ~TupleLess(ViolationKey(vs[j]), ViolationKey(vs[i]))

(* C22: the DFR generate_dfr returns has the violations it was given, each
   as often as it was given, in ascending order of (rule_id,
   offending_node), and passed = true exactly when there is none *)
C22_DfrKeepsViolations ==
  [][(pc = "evaluated" /\ pc' = "done") =>
       LET dfr == IF run = 1 THEN out1'.dfr ELSE out2'.dfr
       IN /\ SameBag(dfr.violations, violations)
          /\ Ascending(dfr.violations)
          /\ dfr.passed <=> (violations = <<>>)]_vars

(* three violations out of order, two of them with one fingerprint and
   two messages *)
C22_Witness ==
  /\ pc = "done" /\ out1.kind = "dfr" /\ Len(out1.dfr.violations) = 3
  /\ ~out1.dfr.passed
  /\ \E i, j \in 1..3 :
       /\ i # j
       /\ out1.dfr.violations[i].metadata.violation_hash
            = out1.dfr.violations[j].metadata.violation_hash
       /\ out1.dfr.violations[i].message # out1.dfr.violations[j].message
  /\ \E i, j \in 1..3 :
       out1.dfr.violations[i].offending_node # out1.dfr.violations[j].offending_node

RulesOf(vs) == {vs[i].rule_id : i \in 1..Len(vs)}

(* C23: a plan evaluated with the evaluators in their registration order
   and again with them in any other order gets the same DFR: the same
   violations in the same order and the same passed flag *)
C23_RegistrationOrder ==
  (BothDone /\ out1.kind = "dfr" /\ out2.kind = "dfr") => out1.dfr = out2.dfr

(* violations of three rules, which the evaluators returned in another
   order the second time *)
C23_Witness ==
  /\ BothDone /\ out1.kind = "dfr" /\ out2.kind = "dfr"
  /\ registered # ACTIVE_EVALUATORS
  /\ Cardinality(RulesOf(out2.dfr.violations)) >= 3
  /\ RunEvaluatorsIn(registered, graph, <<>>) # RunEvaluators(graph, <<>>)

(* C25: canonicalize_json returns one text for a list and for every
   reordering of it and of the lists inside it *)
C25_CanonicalOrderFree ==
  (pc = "call" /\ result # <<>>) => result[1] = result[2]

SameThree(a, b) ==
  /\ a.rule_id = b.rule_id
  /\ a.offending_node = b.offending_node
  /\ a.dedup_data = b.dedup_data

(* C24: two calls of generate_violation get the same fingerprint exactly
   when they agree in rule_id, offending_node and dedup_data, whatever
   their messages *)
C24_FingerprintOfThree ==
  (pc = "violation" /\ result # <<>>) =>
    (result[1].metadata.violation_hash = result[2].metadata.violation_hash
       <=> SameThree(args[1], args[2]))

(* the call is resolved by both evaluators the way the Builder resolved it *)
ResolvedAsBuilt(g, e) ==
  LET found == FoundCandidates(g, e)
  IN IF found = <<>>
       THEN /\ FeBeResolved(g, e).type # "api_endpoint"
            /\ MethodResolved(g, e).type # "api_endpoint"
       ELSE /\ FeBeResolved(g, e) = found[1]
            /\ MethodResolved(g, e) = found[1]

(* C26: in a graph that build returned, FE_BE_001 and
   API_METHOD_MATCH_001 resolve every 'calls' edge with a path to a
   component to the one endpoint the Builder's NO_AMBIGUOUS_ROUTE check
   found for it, and to no endpoint when the Builder found none *)
C26_ResolvedAsBuilt ==
  Compiled =>
    \A k \in 1..Len(graph.edges) :
      NeedsResolution(graph, graph.edges[k]) => ResolvedAsBuilt(graph, graph.edges[k])

(* the kinds a plan declares, in the order build meets them *)
KindsDeclared(p) ==
  Flatten([i \in 1..Len(p.components) |->
             <<[what |-> "component", type |-> p.components[i].type]>>
               \o [k \in 1..Len(p.components[i].resources) |->
                     [what |-> "resource", type |-> p.components[i].resources[k].type]]])

BadKind(d) ==
  IF d.what = "component" THEN d.type \notin ClaimedComponentKinds
  ELSE d.type \notin ClaimedRawKinds

FirstBadKind(p) ==
  LET ds == KindsDeclared(p)
      k == CHOOSE k \in 1..Len(ds) : BadKind(ds[k]) /\ \A j \in 1..(k - 1) : ~BadKind(ds[j])
  IN ds[k]

(* C27: build reports one failure, the first in this order: the earliest
   declared component or resource of an unknown kind; the earliest
   relationship of an unknown kind or with an undeclared end; two colliding
   endpoints; an ambiguous call. An ambiguity code is reported only for a
   plan with valid kinds and declared relationship ends, and
   NO_AMBIGUOUS_ROUTE only for a plan without colliding endpoints *)
C27_FailurePrecedence ==
  (Compiled \/ Failed) =>
    /\ (\E k \in 1..Len(KindsDeclared(CurPlan)) : BadKind(KindsDeclared(CurPlan)[k])) =>
         /\ Failed
         /\ CurOut.code = (IF FirstBadKind(CurPlan).what = "component"
                             THEN "UNKNOWN_COMPONENT_TYPE" ELSE "UNKNOWN_RESOURCE_TYPE")
         /\ CurOut.detail = <<FirstBadKind(CurPlan).type>>
    /\ (ValidKinds(CurPlan) /\ ~Resolvable(CurPlan)) =>
         /\ Failed /\ CurOut.code = "DEPENDENCY_EXISTS"
         /\ CurOut.detail = <<FirstMissing(CurPlan)>>
    /\ (ValidKinds(CurPlan) /\ Resolvable(CurPlan) /\ HasCollision(CurPlan)) =>
         (Failed /\ CurOut.code = "UNIQUE_ENDPOINT")
    /\ (Failed /\ CurOut.code \in {"UNIQUE_ENDPOINT", "NO_AMBIGUOUS_ROUTE"}) =>
         (ValidKinds(CurPlan) /\ Resolvable(CurPlan))
    /\ (Failed /\ CurOut.code = "NO_AMBIGUOUS_ROUTE") => ~HasCollision(CurPlan)

(* a plan with an unknown component kind, an unknown resource kind after
   it, an undeclared relationship end, and a call that two endpoints match,
   that fails on the component *)
C27_Witness ==
  /\ Failed /\ CurOut.code = "UNKNOWN_COMPONENT_TYPE" /\ CurOut.detail = <<"cli">>
  /\ \E k \in 1..Len(ResourcesOf(CurPlan)) : ResourcesOf(CurPlan)[k].type = "topic"
  /\ ~Resolvable(CurPlan)
  /\ \E i \in 1..Len(CurPlan.relationships) :
       CurPlan.relationships[i].type = "calls" /\ CurPlan.relationships[i].target = "c2"

(* a call with a method and a path to a component *)
MethodCallTo(p, rel) ==
  /\ rel.type = "calls"
  /\ Truthy(rel.metadata.method) /\ Truthy(rel.metadata.path)
  /\ rel.target \in ComponentIdsOf(p)

(* C28: a plan with unique ids fails with NO_AMBIGUOUS_ROUTE only through
   a call that gives no method: once UNIQUE_ENDPOINT has passed, a call
   with a method matches one api_endpoint child of its target at most, and
   a plan whose calls all give a method is never rejected as ambiguous *)
C28_MethodCallsUnambiguous ==
  ((Compiled \/ Failed) /\ UniqueIds(CurPlan)) =>
    /\ (ValidKinds(CurPlan) /\ Resolvable(CurPlan) /\ ~HasCollision(CurPlan)) =>
         \A i \in 1..Len(CurPlan.relationships) :
           MethodCallTo(CurPlan, CurPlan.relationships[i]) =>
             Cardinality(MatchingChildren(GraphOfPlan(CurPlan), CurPlan.relationships[i])) <= 1
    /\ (Failed /\ CurOut.code = "NO_AMBIGUOUS_ROUTE") =>
         \E i \in 1..Len(CurPlan.relationships) :
           /\ ~Truthy(CurPlan.relationships[i].metadata.method)
           /\ AmbiguousCall(CurPlan, CurPlan.relationships[i])
           /\ CurOut.detail \in
                [1..Len(CurOut.detail) ->
                   {n.id : n \in MatchingChildren(GraphOfPlan(CurPlan), CurPlan.relationships[i])}]

(* a plan that compiles with a call of method GET to a component two of
   whose endpoints have the call's path *)
C28_Witness ==
  /\ Compiled /\ UniqueIds(CurPlan) /\ Len(CurPlan.relationships) = 1
  /\ MethodCallTo(CurPlan, CurPlan.relationships[1])
  /\ CurPlan.relationships[1].metadata.method = "GET"
  /\ Cardinality(PathChildren(graph, CurPlan.relationships[1])) = 2
  /\ Cardinality(MatchingChildren(graph, CurPlan.relationships[1])) = 1

(* ------------------------------------------------------------------ *)
(* C29: concurrent validate_plan requests store one row per key          *)
(* ------------------------------------------------------------------ *)
(* the stored row of the key of the report the request computed *)
StoredFor(r) == QueryValidationResult(db.validation_result, sessions[r].dfr)

(* the request returned a DFR with the passed flag and the violations of
   the row *)
ReturnsRow(r, row) ==
  /\ responses[r].kind = "dfr"
  /\ responses[r].dfr.passed = row.passed
  /\ responses[r].dfr.violations = json_loads(row.dfr_json)

(* C29: in every interleaving of concurrent validate_plan requests no two
   rows of validation_result have the same (plan_hash, engine_version);
   every request that has returned a DFR returned the passed flag and the
   violations of the stored row of its key; and a request whose insert
   raised IntegrityError ends with the winner's row, never with an error *)
C29_OneStoredResult ==
  /\ \A i, j \in 1..Len(db.validation_result) :
       (/\ db.validation_result[i].plan_hash = db.validation_result[j].plan_hash
        /\ db.validation_result[i].engine_version = db.validation_result[j].engine_version)
         => i = j
  /\ \A r \in Requests :
       /\ responses[r].kind = "dfr" =>
            /\ StoredFor(r) # {}
            /\ \A row \in StoredFor(r) : ReturnsRow(r, row)
       /\ (sessions[r].raced /\ sessions[r].pc = "done") => responses[r].kind = "dfr"
       /\ responses[r].status # 500

(* a request lost the insert race and returned the winner's row, whose
   violations are not those the request computed itself *)
C29_Witness ==
  \E r \in Requests :
    /\ sessions[r].raced
    /\ sessions[r].pc = "done"
    /\ \E row \in StoredFor(r) : ReturnsRow(r, row) /\ row.txn # r
    /\ responses[r].dfr.violations # sessions[r].dfr.violations

(* ------------------------------------------------------------------ *)
(* C30: the rate limiter under concurrent calls                          *)
(* ------------------------------------------------------------------ *)
(* the accepted calls among the responses i..j *)
AcceptedIn(i, j) == {k \in i..j : responses[k].status = 200}

(* the accepted calls that arrived in the minute that starts at w *)
AcceptedInMinute(w) ==
  {k \in 1..Len(responses) :
     responses[k].status = 200 /\ responses[k].at >= w /\ responses[k].at < w + Minute}

(* C30: for one user and one model, in every interleaving of
   check_rate_limit calls, no more than rpm_limit calls that arrived within
   one minute are accepted, and no more than rpd_limit calls are accepted
   without a daily reset between them *)
C30_LimitsHold ==
  /\ \A w \in 0..MaxClock : Cardinality(AcceptedInMinute(w)) <= rpm_limit
  /\ \A i, j \in 1..Len(responses) :
       (i <= j /\ \A k \in (i + 1)..j : ~responses[k].daily_reset)
         => Cardinality(AcceptedIn(i, j)) <= rpd_limit

====
